---- MODULE Spec2Model ----
(***************************************************************************)
(* Model of the volunteer-mcp core: the SWR cache facade (redis_cache.py), *)
(* the rate- and quota-limited search client (provider_search.py) and the  *)
(* aggregation engine (volunteer_search.py).                               *)
(*                                                                         *)
(* Wall-clock time is counted in ticks of 600 s, so the 1800 s fresh       *)
(* window is 3 ticks and the 600 s stale extension is 1 tick.              *)
(***************************************************************************)
EXTENDS Integers, Sequences, FiniteSets, TLC

VARIABLES
    now,        \* time.time(), in ticks
    backend,    \* RedisCacheFacade.backend: "mem" (_InMemorySWR) or "redis" (_RedisSWR)
    store,      \* _InMemorySWR._store
    rstore,     \* the keys of the Redis server the _RedisSWR client talks to
    redisUp,    \* whether the Redis server answers (a command raises when it does not)
    lastSet,    \* per key, the arguments and time of the last set_swr that returned
    obs,        \* the last cache call made through the facade and what it returned
    mono,       \* time.monotonic(), in ticks
    cfg,        \* ProviderSearch configuration: brave_api_key, max_rps, monthly_quota, _redis
    last_request_ts,  \* ProviderSearch._last_request_ts
    rate_lock,  \* ProviderSearch._rate_lock: whether it is held, and its waiters in order
    pc,         \* per task, where its call stands
    op,         \* per task, the operation it called
    wake,       \* per task, the monotonic time its asyncio.sleep ends
    ret,        \* per task, what its call returned or raised
    admits,     \* the values written to _last_request_ts, in order
    period,     \* the current calendar month (the %Y-%m of the quota key)
    rcount,     \* the Redis counters brave:quota:<ym>
    mcount,     \* ProviderSearch._monthly_counts
    qlog,       \* the last quota-admission request: its rank in its period and its answer
    qreqs,      \* per period, the quota-admission requests made so far
    calls,      \* the calls started so far
    seen,       \* per task, what the SWR cache held for its query when its call started
    http,       \* per task, how the HTTP requests of its call ended ("none": not sent)
    apc,        \* where the aggregation call stands
    acall,      \* the aggregation operation the caller invoked
    cc,         \* the frame of career_collect: its arguments, mx and by_career
    ac,         \* the frame of area_collect: its arguments, loop index and result
    aret,       \* what the aggregation call returned or raised
    ncalls,     \* the aggregation calls started so far
    lastcc,     \* the last bucket career_collect computed, with the pools it used
    request,    \* the location, min_per and safe_only the caller asks with
    fanlog,     \* the last direct call of search: what each adapter did, what came back
    prev,       \* the last area_collect that returned: its areas, its output, how long its entries stay fresh
    appended,   \* the items pushed by the append_archive calls made directly, in order
    bq,         \* the last boosted string built: its inputs and the string
    norm,       \* the last list normalized on its own: the raw items, the path, the output
    mem_results, \* VolunteerStorage: the records store_results keeps
    sc          \* per caller, its own call of search: position, filters, what it read and returned

cacheVars == <<now, backend, store, rstore, redisUp, lastSet, obs>>
provVars == <<mono, cfg, last_request_ts, rate_lock, pc, op, wake, ret, admits,
              period, rcount, mcount, qlog, qreqs, calls, seen, http>>

----------------------------------------------------------------------------
aggVars == <<apc, acall, cc, ac, aret, ncalls, lastcc, request, fanlog, prev>>
auxVars == <<appended, bq, norm, mem_results, sc>>

----------------------------------------------------------------------------
(* Bounds *)

MaxTime == 3
MaxTtl == 2
MaxSwr == 1
NumTasks == 3
MaxMono == 1
MaxInterval == 2
MaxQuota == 2
MaxPeriod == 1
MaxCalls == 4
NumCallers == 2
MaxSearches == 2
MaxMinPer == 2
MaxAggCalls == 2
MaxAppends == 201
MaxFewAppends == 2
MaxHints == 2
MaxNormLen == 2
NumSearchers == 2

Keys == {[ns |-> "k1"], [ns |-> "k2"]}
Blobs == {"v1", "v2"}

----------------------------------------------------------------------------
(* Values.  Every cached value is a tagged record so that None, blobs,     *)
(* lists and buckets are comparable.                                       *)

None == [tag |-> "None"]
Blob(b) == [tag |-> "blob", b |-> b]

NoEntry == [set |-> FALSE]

\* A dict, or the keyspace of the Redis server: no key at first.
EmptyStore == [k \in {} |-> NoEntry]
\* The assignment that forgets every other key.
Put_ClearOthers(st, key, entry) == [k \in {key} |-> entry]

\* self._store[key] = entry / SET key
Put(st, key, entry) ==
    [k \in DOMAIN st \cup {key} |-> IF k = key THEN entry ELSE st[k]]

\* json.dumps(payload) / json.loads(raw): the stored string and its parse.
json_dumps(v) == [json |-> v]
json_loads(raw) == raw.json

----------------------------------------------------------------------------
(* _InMemorySWR *)

InMemorySWR_get_swr(st, t, key) ==
    IF key \notin DOMAIN st
    THEN <<None, FALSE, FALSE>>
    ELSE <<st[key].value, t < st[key].exp, t < st[key].swr_until>>

\* The stale window counted from now instead of from the end of the fresh
\* window.
InMemorySWR_set_swr_StaleFromNow(st, t, key, value, ttl_seconds, swr_seconds) ==
    Put(st, key, [exp |-> t + ttl_seconds, swr_until |-> t + swr_seconds,
                  value |-> value])

InMemorySWR_set_swr(st, t, key, value, ttl_seconds, swr_seconds) ==
    Put(st, key, [exp |-> t + ttl_seconds,
                  swr_until |-> t + ttl_seconds + swr_seconds,
                  value |-> value])

----------------------------------------------------------------------------
(* _RedisSWR.  A Redis string key set with EX n is gone n seconds later;   *)
(* SET with EX 0 is refused by the server (the client raises).             *)

RedisLive(rst, t, key) == key \in DOMAIN rst /\ t < rst[key].expire_at

RedisSWR_get_swr(rst, t, key) ==
    IF ~RedisLive(rst, t, key)
    THEN <<None, FALSE, FALSE>>
    ELSE LET data == json_loads(rst[key].raw)
         IN  <<data.value, t < data.exp, t < data.swr>>

RedisSetRaises(up, ttl_seconds, swr_seconds) ==
    ~up \/ ttl_seconds + swr_seconds <= 0

RedisSWR_set_swr(rst, t, key, value, ttl_seconds, swr_seconds) ==
    LET payload == [value |-> value, exp |-> t + ttl_seconds,
                    swr |-> t + ttl_seconds + swr_seconds]
        ex == ttl_seconds + swr_seconds
    IN  Put(rst, key, [kind |-> "string", raw |-> json_dumps(payload),
                       expire_at |-> t + ex])

----------------------------------------------------------------------------
(* RedisCacheFacade: delegates to the backend chosen at construction.      *)

FacadeGetRaises == backend = "redis" /\ ~redisUp

FacadeSetRaises(ttl_seconds, swr_seconds) ==
    backend = "redis" /\ RedisSetRaises(redisUp, ttl_seconds, swr_seconds)

Facade_get_swr(key) ==
    IF backend = "mem"
    THEN InMemorySWR_get_swr(store, now, key)
    ELSE RedisSWR_get_swr(rstore, now, key)

\* The stores after set_swr returned normally.
Facade_set_store(key, value, ttl_seconds, swr_seconds) ==
    IF backend = "mem"
    THEN InMemorySWR_set_swr(store, now, key, value, ttl_seconds, swr_seconds)
    ELSE store

Facade_set_rstore(key, value, ttl_seconds, swr_seconds) ==
    IF backend = "redis"
    THEN RedisSWR_set_swr(rstore, now, key, value, ttl_seconds, swr_seconds)
    ELSE rstore

----------------------------------------------------------------------------
(* The cache driven directly: get, set, the clock and the Redis server.    *)

NoObs == [op |-> "none"]

CacheInitWith(backends) ==
    /\ now = 0
    /\ backend \in backends
    /\ store = EmptyStore
    /\ rstore = EmptyStore
    /\ redisUp = TRUE
    /\ lastSet = EmptyStore
    /\ obs = NoObs

CacheInit == CacheInitWith({"mem", "redis"})

Tick ==
    /\ now < MaxTime
    /\ now' = now + 1
    /\ UNCHANGED <<backend, store, rstore, redisUp, lastSet, obs>>
    /\ UNCHANGED provVars
    /\ UNCHANGED aggVars
    /\ UNCHANGED auxVars

RedisFlip ==
    /\ backend = "redis"
    /\ redisUp' = ~redisUp
    /\ UNCHANGED <<now, backend, store, rstore, lastSet, obs>>
    /\ UNCHANGED provVars
    /\ UNCHANGED aggVars
    /\ UNCHANGED auxVars

CacheSet(key, value, f, s) ==
    /\ IF FacadeSetRaises(f, s)
       THEN /\ obs' = [op |-> "set", key |-> key, raised |-> TRUE, up |-> redisUp]
            /\ UNCHANGED <<store, rstore, lastSet>>
       ELSE /\ store' = Facade_set_store(key, value, f, s)
            /\ rstore' = Facade_set_rstore(key, value, f, s)
            /\ lastSet' = Put(lastSet, key, [set |-> TRUE, at |-> now,
                                              value |-> value, f |-> f, s |-> s])
            /\ obs' = [op |-> "set", key |-> key, raised |-> FALSE, up |-> redisUp]
    /\ UNCHANGED <<now, backend, redisUp>>
    /\ UNCHANGED provVars
    /\ UNCHANGED aggVars
    /\ UNCHANGED auxVars

CacheGet(key) ==
    /\ IF FacadeGetRaises
       THEN obs' = [op |-> "get", key |-> key, raised |-> TRUE, up |-> redisUp]
       ELSE obs' = [op |-> "get", key |-> key, raised |-> FALSE, up |-> redisUp,
                    res |-> Facade_get_swr(key), at |-> now,
                    last |-> IF key \in DOMAIN lastSet
                             THEN lastSet[key] ELSE NoEntry]
    /\ UNCHANGED <<now, backend, store, rstore, redisUp, lastSet>>
    /\ UNCHANGED provVars
    /\ UNCHANGED aggVars
    /\ UNCHANGED auxVars

CacheSetAny == \E k \in Keys, b \in Blobs, f \in 0..MaxTtl, s \in 0..MaxSwr :
                   CacheSet(k, Blob(b), f, s)

CacheGetAny == \E k \in Keys : CacheGet(k)

----------------------------------------------------------------------------
(* ProviderSearch: tasks, configuration and what a call hands back.        *)

Tasks == 1..NumTasks

NoRet == [kind |-> "none"]
Returned(v) == [kind |-> "return", value |-> v]
Raised == [kind |-> "raise"]

NoQ == [set |-> FALSE]
NoHttp == [brave |-> "none", ddg |-> "none"]

Configs(keys, rpsOns, intervals, quotas, redises) ==
    [brave_api_key : keys, rps_on : rpsOns, min_interval : intervals,
     monthly_quota : quotas, has_redis : redises]

ProvInitWith(monos, configs) ==
    /\ mono \in monos
    /\ cfg \in configs
    /\ last_request_ts = 0
    /\ rate_lock = [locked |-> FALSE, waiters |-> <<>>]
    /\ pc = [t \in Tasks |-> "idle"]
    /\ op = [t \in Tasks |-> "none"]
    /\ wake = [t \in Tasks |-> 0]
    /\ ret = [t \in Tasks |-> NoRet]
    /\ admits = <<>>
    /\ period = 0
    /\ rcount = [p \in 0..MaxPeriod |-> 0]
    /\ mcount = [p \in 0..MaxPeriod |-> 0]
    /\ qlog = NoQ
    /\ qreqs = [p \in 0..MaxPeriod |-> 0]
    /\ calls = 0
    /\ seen = [t \in Tasks |-> <<None, FALSE, FALSE>>]
    /\ http = [t \in Tasks |-> NoHttp]

ProvIdle ==
    ProvInitWith({0}, {[brave_api_key |-> FALSE, rps_on |-> TRUE, min_interval |-> 1,
                   monthly_quota |-> 1, has_redis |-> FALSE]})

\* A refused gate taken for a passed one.
GatePc_IgnoreDenial(t, gate, ok) ==
    IF op[t] = "search"
    THEN (IF gate = "rps" THEN "quota" ELSE "http_brave")
    ELSE "done"

\* Where a task goes once a gate of its call has answered ok.
GatePc(t, gate, ok) ==
    IF op[t] = "search" /\ ok
    THEN (IF gate = "rps" THEN "quota" ELSE "http_brave")
    ELSE "done"

\* _search_brave line 41 / 43: a refused gate collapses to {"results": []},
\* to which search_boosted adds the boosted query.
EmptyResult == [results |-> <<>>, boosted |-> "boosted"]

GateRet(t, gate, ok) ==
    IF op[t] = "search"
    THEN (IF ok THEN NoRet ELSE Returned(EmptyResult))
    ELSE Returned(ok)

----------------------------------------------------------------------------
(* ProviderSearch._respect_rps.  The asyncio.Lock is free for a caller     *)
(* only when nobody holds it and nobody waits for it; a released lock goes *)
(* to its first waiter.                                                    *)

\* The lock left out: every caller goes straight in.
LockFree_NoLock == TRUE

LockFree == ~rate_lock.locked /\ rate_lock.waiters = <<>>

LockHandedTo(t) ==
    /\ ~rate_lock.locked
    /\ rate_lock.waiters # <<>>
    /\ Head(rate_lock.waiters) = t

wait_s == last_request_ts + cfg.min_interval - mono

\* Inside the lock, from `now = time.monotonic()` on: either the task
\* starts its sleep holding the lock, or it writes the timestamp and leaves.
RpsCritical(t, waitersAfter) ==
    IF wait_s > 0
    THEN /\ rate_lock' = [locked |-> TRUE, waiters |-> waitersAfter]
         /\ pc' = [pc EXCEPT ![t] = "sleep"]
         /\ wake' = [wake EXCEPT ![t] = mono + wait_s]
         /\ UNCHANGED <<last_request_ts, admits, ret>>
    ELSE /\ rate_lock' = [locked |-> FALSE, waiters |-> waitersAfter]
         /\ last_request_ts' = mono
         /\ admits' = Append(admits, mono)
         /\ pc' = [pc EXCEPT ![t] = GatePc(t, "rps", TRUE)]
         /\ ret' = [ret EXCEPT ![t] = GateRet(t, "rps", TRUE)]
         /\ UNCHANGED wake

RpsEnter(t) ==
    /\ pc[t] = "rps"
    /\ IF ~cfg.rps_on
       THEN /\ pc' = [pc EXCEPT ![t] = GatePc(t, "rps", FALSE)]
            /\ ret' = [ret EXCEPT ![t] = GateRet(t, "rps", FALSE)]
            /\ UNCHANGED <<rate_lock, wake, last_request_ts, admits>>
       ELSE IF LockFree
       THEN RpsCritical(t, rate_lock.waiters)
       ELSE /\ rate_lock' = [rate_lock EXCEPT !.waiters = Append(@, t)]
            /\ pc' = [pc EXCEPT ![t] = "lock_wait"]
            /\ UNCHANGED <<wake, last_request_ts, admits, ret>>
    /\ UNCHANGED <<mono, cfg, op, period, rcount, mcount, qlog, qreqs, calls, seen, http>>
    /\ UNCHANGED cacheVars
    /\ UNCHANGED aggVars
    /\ UNCHANGED auxVars

RpsLockAcquired(t) ==
    /\ pc[t] = "lock_wait"
    /\ LockHandedTo(t)
    /\ RpsCritical(t, Tail(rate_lock.waiters))
    /\ UNCHANGED <<mono, cfg, op, period, rcount, mcount, qlog, qreqs, calls, seen, http>>
    /\ UNCHANGED cacheVars
    /\ UNCHANGED aggVars
    /\ UNCHANGED auxVars

SleepOver(t) == mono >= wake[t]

RpsAfterSleep(t) ==
    /\ pc[t] = "sleep"
    /\ SleepOver(t)
    /\ last_request_ts' = mono
    /\ admits' = Append(admits, mono)
    /\ rate_lock' = [rate_lock EXCEPT !.locked = FALSE]
    /\ pc' = [pc EXCEPT ![t] = GatePc(t, "rps", TRUE)]
    /\ ret' = [ret EXCEPT ![t] = GateRet(t, "rps", TRUE)]
    /\ UNCHANGED <<mono, cfg, op, wake, period, rcount, mcount, qlog, qreqs, calls, seen, http>>
    /\ UNCHANGED cacheVars
    /\ UNCHANGED aggVars
    /\ UNCHANGED auxVars

\* The monotonic clock; it runs on past MaxMono only while a sleep needs it.
TickMono ==
    /\ \/ mono < MaxMono
       \/ \E t \in Tasks : pc[t] = "sleep" /\ wake[t] > mono
    /\ mono' = mono + 1
    /\ UNCHANGED <<cfg, last_request_ts, rate_lock, pc, op, wake, ret, admits,
                   period, rcount, mcount, qlog, qreqs, calls, seen, http>>
    /\ UNCHANGED cacheVars
    /\ UNCHANGED aggVars
    /\ UNCHANGED auxVars

StartRps(t) ==
    /\ pc[t] = "idle"
    /\ pc' = [pc EXCEPT ![t] = "rps"]
    /\ op' = [op EXCEPT ![t] = "rps"]
    /\ calls' = calls + 1
    /\ UNCHANGED <<mono, cfg, last_request_ts, rate_lock, wake, ret, admits,
                   period, rcount, mcount, qlog, qreqs, seen, http>>
    /\ UNCHANGED cacheVars
    /\ UNCHANGED aggVars
    /\ UNCHANGED auxVars

----------------------------------------------------------------------------
(* ProviderSearch._respect_monthly_quota.  It has no await: one step.      *)
(* With a Redis client, INCR then EXPIRE; any exception falls through to   *)
(* the in-memory counter.                                                  *)

QuotaGranted(count) == count <= cfg.monthly_quota

\* outcome: "ok", "incr_raises" (Redis does not answer) or "expire_raises"
\* (the connection is lost between INCR and EXPIRE).
RedisOutcomes ==
    IF redisUp THEN {"ok", "expire_raises"} ELSE {"incr_raises"}

respect_monthly_quota(t, outcome) ==
    /\ pc[t] = "quota"
    /\ IF cfg.monthly_quota <= 0
       THEN /\ pc' = [pc EXCEPT ![t] = GatePc(t, "quota", FALSE)]
            /\ ret' = [ret EXCEPT ![t] = GateRet(t, "quota", FALSE)]
            /\ UNCHANGED <<rcount, mcount, redisUp>>
            /\ qlog' = [set |-> TRUE, counted |-> FALSE, granted |-> FALSE,
                        n |-> qreqs[period] + 1, period |-> period]
       ELSE LET useRedis == cfg.has_redis /\ outcome = "ok"
                incremented == cfg.has_redis /\ outcome # "incr_raises"
                val == rcount[period] + 1
                current == mcount[period] + 1
                ok == IF useRedis THEN QuotaGranted(val) ELSE QuotaGranted(current)
            IN  /\ rcount' = IF incremented
                             THEN [rcount EXCEPT ![period] = val] ELSE rcount
                /\ mcount' = IF useRedis
                             THEN mcount ELSE [mcount EXCEPT ![period] = current]
                /\ redisUp' = IF cfg.has_redis /\ outcome = "expire_raises"
                              THEN FALSE ELSE redisUp
                /\ pc' = [pc EXCEPT ![t] = GatePc(t, "quota", ok)]
                /\ ret' = [ret EXCEPT ![t] = GateRet(t, "quota", ok)]
                /\ qlog' = [set |-> TRUE, counted |-> TRUE, granted |-> ok,
                            n |-> qreqs[period] + 1, period |-> period]
    /\ qreqs' = [qreqs EXCEPT ![period] = @ + 1]
    /\ UNCHANGED <<mono, cfg, last_request_ts, rate_lock, op, wake, admits,
                   period, calls, seen, http>>
    /\ UNCHANGED <<now, backend, store, rstore, lastSet, obs>>
    /\ UNCHANGED aggVars
    /\ UNCHANGED auxVars

QuotaStep(t) ==
    \E outcome \in (IF cfg.has_redis THEN RedisOutcomes ELSE {"ok"}) :
        respect_monthly_quota(t, outcome)

StartQuota(t) ==
    /\ pc[t] = "idle"
    /\ calls < MaxCalls
    /\ pc' = [pc EXCEPT ![t] = "quota"]
    /\ op' = [op EXCEPT ![t] = "quota"]
    /\ calls' = calls + 1
    /\ UNCHANGED <<mono, cfg, last_request_ts, rate_lock, wake, ret, admits,
                   period, rcount, mcount, qlog, qreqs, seen, http>>
    /\ UNCHANGED cacheVars
    /\ UNCHANGED aggVars
    /\ UNCHANGED auxVars

----------------------------------------------------------------------------
(* ProviderSearch.search_boosted, _search_brave and _search_ddg_html.      *)

\* The hits a well-formed answer carries, and an entry a caller may have
\* stored for the query.
Hits == <<"hit">>
CachedHits == [tag |-> "hits", results |-> <<"cached">>]

\* The cache key of (boostedQuery, topK).
boosted_key == [ns |-> "search_boosted"]

\* How the GET to api.search.brave.com ends: a 200 with hits or with none,
\* another status, a network error or timeout, a body r.json() rejects, or
\* a body that parses to something other than {"web": {"results": [...]}}.
BraveOutcomes == {"ok_hits", "ok_empty", "non200", "network_error",
                  "bad_json", "bad_shape"}

\* How the GET to the DuckDuckGo mirror ends.
DdgOutcomes == {"ok_hits", "ok_empty", "non200", "network_error"}

\* Lines 46-61: what _search_brave hands back for an outcome of the GET;
\* data.get(...) on a body of another shape raises outside the try.
search_brave_result(outcome) ==
    CASE outcome = "ok_hits" -> Returned([results |-> Hits, boosted |-> "boosted"])
      [] outcome = "bad_shape" -> Raised
      [] OTHER -> Returned(EmptyResult)

\* Lines 120-136.
search_ddg_html_result(outcome) ==
    IF outcome = "ok_hits"
    THEN Returned([results |-> Hits, boosted |-> "boosted"])
    ELSE Returned(EmptyResult)

\* search_boosted up to its first await: the boosted query is built, then
\* The quota gate asked first.
FirstStep_QuotaFirst == IF cfg.brave_api_key THEN "quota" ELSE "http_ddg"

\* _search_brave when a key is configured, else _search_ddg_html.
FirstStep == IF cfg.brave_api_key THEN "rps" ELSE "http_ddg"

search_boosted_start(t) ==
    /\ pc[t] = "idle"
    /\ t <= NumCallers
    /\ calls < MaxSearches
    /\ pc' = [pc EXCEPT ![t] = FirstStep]
    /\ op' = [op EXCEPT ![t] = "search"]
    /\ calls' = calls + 1
    /\ seen' = [seen EXCEPT ![t] = Facade_get_swr(boosted_key)]
    /\ http' = [http EXCEPT ![t] = NoHttp]
    /\ UNCHANGED <<mono, cfg, last_request_ts, rate_lock, wake, ret, admits,
                   period, rcount, mcount, qlog, qreqs>>
    /\ UNCHANGED cacheVars
    /\ UNCHANGED aggVars

StartSearch(t) ==
    /\ search_boosted_start(t)
    /\ UNCHANGED auxVars

\* Strings are sequences of tokens; a hint list is None or a list of
\* one-token strings.
HintList(strs) == [tag |-> "list", strs |-> strs]

RECURSIVE Join(_, _)
\* sep.join(strs)
Join(strs, sep) ==
    IF strs = <<>> THEN <<>>
    ELSE IF Len(strs) = 1 THEN strs[1]
    ELSE strs[1] \o sep \o Join(Tail(strs), sep)

\* Python's truth value of an Optional[List[str]].
Truthy(hints) == IF hints = None THEN FALSE ELSE Len(hints.strs) > 0

\* "(" + " OR ".join(hints) + ")"
OrGroup(hints) == <<"(">> \o Join(hints.strs, <<" OR ">>) \o <<")">>

\* The hint lists dropped from the query.
BoostedQuery_NoHints(query, domains, keywords) == query

\* Lines 146-151.
BoostedQuery(query, domains, keywords) ==
    LET parts0 == <<query>>
        parts1 == IF Truthy(domains) THEN Append(parts0, OrGroup(domains)) ELSE parts0
        parts2 == IF Truthy(keywords) THEN Append(parts1, OrGroup(keywords)) ELSE parts1
    IN  Join(parts2, <<" ">>)

Queries == {<<"q1">>, <<"q2">>}
DomainNames == <<<<"d1">>, <<"d2">>, <<"d3">>>>
KeywordNames == <<<<"k1">>, <<"k2">>, <<"k3">>>>
DomainHints == {None} \cup {HintList(SubSeq(DomainNames, 1, n)) : n \in 0..MaxHints}
KeywordHints == {None} \cup {HintList(SubSeq(KeywordNames, 1, n)) : n \in 0..MaxHints}

\* search_boosted(query, topK, domains, keywords) up to its first await,
\* with the local variable boosted that lines 155 and 160 put in the result.
StartBoosted(t) ==
    /\ search_boosted_start(t)
    /\ \E query \in Queries, domains \in DomainHints, keywords \in KeywordHints :
          bq' = [bq EXCEPT ![t] = [set |-> TRUE, query |-> query,
                                   domains |-> domains, keywords |-> keywords,
                                   boosted |-> BoostedQuery(query, domains, keywords)]]
    /\ UNCHANGED <<appended, norm, mem_results, sc>>

BraveHttp(t) ==
    /\ pc[t] = "http_brave"
    /\ \E outcome \in BraveOutcomes :
          /\ http' = [http EXCEPT ![t].brave = outcome]
          /\ ret' = [ret EXCEPT ![t] = search_brave_result(outcome)]
    /\ pc' = [pc EXCEPT ![t] = "done"]
    /\ UNCHANGED <<mono, cfg, last_request_ts, rate_lock, op, wake, admits,
                   period, rcount, mcount, qlog, qreqs, calls, seen>>
    /\ UNCHANGED cacheVars
    /\ UNCHANGED aggVars
    /\ UNCHANGED auxVars

DdgHttp(t) ==
    /\ pc[t] = "http_ddg"
    /\ \E outcome \in DdgOutcomes :
          /\ http' = [http EXCEPT ![t].ddg = outcome]
          /\ ret' = [ret EXCEPT ![t] = search_ddg_html_result(outcome)]
    /\ pc' = [pc EXCEPT ![t] = "done"]
    /\ UNCHANGED <<mono, cfg, last_request_ts, rate_lock, op, wake, admits,
                   period, rcount, mcount, qlog, qreqs, calls, seen>>
    /\ UNCHANGED cacheVars
    /\ UNCHANGED aggVars
    /\ UNCHANGED auxVars

\* Some caller stores an entry for the query through the facade.
SeedCache ==
    /\ ~FacadeSetRaises(1, 1)
    /\ \E f \in {1}, s \in {1} :
          /\ store' = Facade_set_store(boosted_key, CachedHits, f, s)
          /\ rstore' = Facade_set_rstore(boosted_key, CachedHits, f, s)
          /\ lastSet' = Put(lastSet, boosted_key,
                             [set |-> TRUE, at |-> now, value |-> CachedHits,
                              f |-> f, s |-> s])
    /\ UNCHANGED <<now, backend, redisUp, obs>>
    /\ UNCHANGED provVars
    /\ UNCHANGED aggVars
    /\ UNCHANGED auxVars

\* The caller takes the answer; the task is free for another call.
Finish(t) ==
    /\ pc[t] = "done"
    /\ pc' = [pc EXCEPT ![t] = "idle"]
    /\ op' = [op EXCEPT ![t] = "none"]
    /\ ret' = [ret EXCEPT ![t] = NoRet]
    /\ seen' = [seen EXCEPT ![t] = <<None, FALSE, FALSE>>]
    /\ http' = [http EXCEPT ![t] = NoHttp]
    /\ UNCHANGED <<mono, cfg, last_request_ts, rate_lock, wake, admits,
                   period, rcount, mcount, qlog, qreqs, calls>>
    /\ UNCHANGED cacheVars
    /\ UNCHANGED aggVars
    /\ UNCHANGED auxVars

\* The calendar month changes.
NewPeriod ==
    /\ period < MaxPeriod
    /\ period' = period + 1
    /\ UNCHANGED <<mono, cfg, last_request_ts, rate_lock, pc, op, wake, ret,
                   admits, rcount, mcount, qlog, qreqs, calls, seen, http>>
    /\ UNCHANGED cacheVars
    /\ UNCHANGED aggVars
    /\ UNCHANGED auxVars

\* The Redis server of the quota counter goes away or comes back.
QuotaRedisFlip ==
    /\ cfg.has_redis
    /\ redisUp' = ~redisUp
    /\ UNCHANGED <<now, backend, store, rstore, lastSet, obs>>
    /\ UNCHANGED provVars
    /\ UNCHANGED aggVars
    /\ UNCHANGED auxVars

----------------------------------------------------------------------------
(* Archives.  _InMemorySWR keeps the list as the value of an SWR entry and *)
(* appends at the end; _RedisSWR keeps a Redis list and pushes at the head.*)

ArchiveMax == 200
\* 86400 s, in ticks of 600 s
ArchiveTtl == 144

ListVal(items) == [tag |-> "list", items |-> items]

ArchiveKey(list_key) == [ns |-> "archive", list |-> list_key]

LastN(s, n) == IF Len(s) > n THEN SubSeq(s, Len(s) - n + 1, Len(s)) ELSE s
FirstN(s, n) == IF Len(s) > n THEN SubSeq(s, 1, n) ELSE s

\* The list rebuilt from the new item alone, what was stored left unread.
InMemorySWR_append_archive_LostUpdate(st, t, list_key, item) ==
    InMemorySWR_set_swr(st, t, ArchiveKey(list_key), ListVal(<<item>>), ArchiveTtl, 0)

InMemorySWR_append_archive(st, t, list_key, item) ==
    LET key == ArchiveKey(list_key)
        cached == InMemorySWR_get_swr(st, t, key)[1]
        arr == IF cached = None THEN <<>> ELSE cached.items
    IN  InMemorySWR_set_swr(st, t, key, ListVal(LastN(Append(arr, item), ArchiveMax)),
                            ArchiveTtl, 0)

RedisSWR_append_archive(rst, t, list_key, item) ==
    LET key == ArchiveKey(list_key)
        old == IF RedisLive(rst, t, key) THEN rst[key].raw ELSE <<>>
        pushed == <<json_dumps(item)>> \o old
    IN  Put(rst, key, [kind |-> "list", raw |-> FirstN(pushed, ArchiveMax),
                       expire_at |-> t + ArchiveTtl])

FacadeArchiveRaises == backend = "redis" /\ ~redisUp

Facade_archive_store(st, list_key, item) ==
    IF backend = "mem"
    THEN InMemorySWR_append_archive(st, now, list_key, item)
    ELSE st

Facade_archive_rstore(rst, list_key, item) ==
    IF backend = "redis"
    THEN RedisSWR_append_archive(rst, now, list_key, item)
    ELSE rst

----------------------------------------------------------------------------
(* VolunteerSearch: raw records, the source adapters, normalization.       *)

\* 1800 s and 600 s, in ticks of 600 s
TtlTicks == 3
SwrTicks == 1

\* The raw records the adapters can return.  "d" is another record with
\* the link of "a".
\* "f" matches no keyword of the career table; "g" has no link of its own
\* (the records of _source_local_mock); the role of "h" speaks of "sistemas".
RawRecords == {"a", "b", "c", "d", "e", "f", "g", "h"}

\* item.get("link")
RawLink(r) == CASE r = "a" -> "L1" [] r = "b" -> "L2" [] r = "c" -> "L3" [] r = "d" -> "L1"
                   [] r = "e" -> "L4" [] r = "f" -> "L5" [] r = "g" -> ""
                   [] r = "h" -> "L6"
\* item.get("source"): every adapter sets it.
Source(r) ==
    CASE r = "b" -> "blog" [] r = "d" -> "https://techo.org"
      [] r = "f" -> "https://www.workaway.info" [] r = "g" -> "local_mock"
      [] OTHER -> "https://www.gob.mx"
Location(r) ==
    CASE r = "a" -> "cdmx" [] r = "b" -> "global" [] r = "c" -> "monterrey"
      [] r = "d" -> "remoto" [] r = "e" -> "monterrey" [] r = "f" -> "global"
      [] r = "g" -> "cdmx" [] r = "h" -> "cdmx"

\* The keywords that occur in the record's role and need.
Text(r) ==
    CASE r \in {"a", "d", "g"} -> {"salud"} [] r = "b" -> {"medic"}
      [] r = "c" -> {"reforest", "agro"} [] r = "e" -> {"huerto"}
      [] r = "f" -> {} [] r = "h" -> {"sistema"}

\* The link taken without the source as a fallback.
Link_NoFallback(r) == RawLink(r)

\* it.get("link") or it.get("source")
Link(r) == IF RawLink(r) # "" THEN RawLink(r) ELSE Source(r)

safe_sources == {"https://www.gob.mx", "https://www.workaway.info", "https://techo.org"}
mx_locations == {"cdmx", "monterrey"}
Locations == {"", "cdmx"}

\* `location in loc.lower()` for the locations of the model.
LocIn(location, loc) == location = "" \/ location = loc

\* _is_mexico_item: one of mx_locations occurs in the record's text, which
\* includes its location and its source ("mx" occurs in "www.gob.mx").
is_mexico_item(r) == Location(r) \in mx_locations \/ Source(r) = "https://www.gob.mx"

\* _infer_career: the matching categories in the order of the keyword
\* table, or ["general"].
mapping ==
    <<[career |-> "salud", kws |-> {"salud", "enfermer", "médic", "medic"}],
      [career |-> "educación", kws |-> {"educ", "docente", "mentor", "mentoría"}],
      [career |-> "ambiental", kws |-> {"ambient", "reforest", "clima", "tortuga", "conserv"}],
      [career |-> "social", kws |-> {"social", "comunit", "banco de alimentos", "alimentos"}],
      [career |-> "legal", kws |-> {"legal", "derecho"}],
      [career |-> "ti", kws |-> {"ti ", "software", "datos", "data", "sistema"}],
      [career |-> "logística", kws |-> {"logíst", "logist", "cadena de suministro", "suministro"}],
      [career |-> "agricultura", kws |-> {"agric", "agro", "campo", "granja", "huerto", "siembra",
                                          "cosecha", "alimentos"}]>>

\* ["general"] whatever the text.
infer_career_text_AlwaysGeneral(text) == <<"general">>

infer_career_text(text) ==
    LET Hit(m) == m.kws \cap text # {}
        hits == SelectSeq(mapping, Hit)
    IN  IF hits = <<>> THEN <<"general">> ELSE [i \in 1..Len(hits) |-> hits[i].career]

infer_career(r) == infer_career_text(Text(r))

\* The position of a category name under Python's string order.
Rank(c) ==
    CASE c = "agricultura" -> 1 [] c = "ambiental" -> 2 [] c = "ingeniería" -> 3
      [] c = "salud" -> 4 [] c = "sistemas" -> 5 [] c = "ti" -> 6

Categories == {"agricultura", "ambiental", "salud"}

\* One record of _normalize_mx (lines 385-406): it carries "position".
normalize_mx_item(r) ==
    [link |-> Link(r), locations |-> <<Location(r)>>, career |-> infer_career(r),
     source |-> Source(r), text |-> Text(r), position |-> Link(r)]

\* One record of the global normalization (lines 452-471): no "position".
normalize_global_item(r) ==
    [link |-> Link(r), locations |-> <<Location(r)>>, career |-> infer_career(r),
     source |-> Source(r), text |-> Text(r)]

\* The region test left out.
normalize_mx_KeepAll(items) == [i \in 1..Len(items) |-> normalize_mx_item(items[i])]

normalize_mx(items) ==
    LET IsMx(r) == is_mexico_item(r)
        kept == SelectSeq(items, IsMx)
    IN  [i \in 1..Len(kept) |-> normalize_mx_item(kept[i])]

normalize_global(items) == [i \in 1..Len(items) |-> normalize_global_item(items[i])]

\* `origin in s`: the link "L5" is a page of techo.org.
Contains(s, origin) == s = origin \/ (s = "L5" /\ origin = "https://techo.org")

\* Every record taken for trusted.
is_safe_Always(item) == TRUE

is_safe(item) ==
    \E safe \in safe_sources : Contains(item.source, safe) \/ Contains(item.link, safe)

SeqSet(s) == {s[i] : i \in 1..Len(s)}

\* Every record taken for a record of the category.
matches_career_Any(item, c) == TRUE

matches_career(item, c) == c \in SeqSet(item.career)

HasLocation(item, location) ==
    \E i \in 1..Len(item.locations) : LocIn(location, item.locations[i])

\* items[:n]
Take(s, n) == IF n <= 0 THEN <<>> ELSE IF Len(s) > n THEN SubSeq(s, 1, n) ELSE s

\* The candidates of a category: matching, and trusted when safe_only.
Eligible(items, c, safe_only) ==
    LET Ok(i) == matches_career(i, c) /\ (safe_only => is_safe(i))
    IN  SelectSeq(items, Ok)

\* The candidates left in discovery order.
SortLocationFirst_Unsorted(extra, location) == extra

\* sorted(extra, key=<location matches>, reverse=True): stable.
SortLocationFirst(extra, location) ==
    LET Yes(i) == HasLocation(i, location)
        No(i) == ~HasLocation(i, location)
    IN  SelectSeq(extra, Yes) \o SelectSeq(extra, No)

\* The keys of {c: [] for c in careers}, in insertion order.
RECURSIVE Distinct(_)
Distinct(s) ==
    IF s = <<>> THEN <<>>
    ELSE LET rest == Distinct(SubSeq(s, 1, Len(s) - 1))
             x == s[Len(s)]
         IN  IF x \in SeqSet(rest) THEN rest ELSE Append(rest, x)

\* sorted(careers)
RECURSIVE Sorted(_)
Sorted(s) ==
    IF s = <<>> THEN <<>>
    ELSE LET x == s[1]
             rest == Sorted(Tail(s))
             Before(y) == Rank(y) < Rank(x)
             NotBefore(y) == ~(Rank(y) < Rank(x))
         IN  SelectSeq(rest, Before) \o <<x>> \o SelectSeq(rest, NotBefore)

\* Lines 439-443.
Phase1(mx, careers, min_per, safe_only) ==
    [c \in SeqSet(careers) |-> Take(Eligible(mx, c, safe_only), min_per)]

\* Lines 473-483, over careers[i..].
RECURSIVE Phase2(_, _, _, _, _, _, _)

\* The lists of phase 1 thrown away for the global candidates.
Phase2_Replace(by_career, glob_norm, careers, i, location, min_per, safe_only) ==
    [c \in DOMAIN by_career |-> Take(Eligible(glob_norm, c, safe_only), min_per)]

\* Every candidate appended, `needed` left out.
Phase2_AppendAll(by_career, glob_norm, careers, i, location, min_per, safe_only) ==
    [c \in DOMAIN by_career |-> by_career[c] \o Eligible(glob_norm, c, safe_only)]

Phase2(by_career, glob_norm, careers, i, location, min_per, safe_only) ==
    IF i > Len(careers) THEN by_career
    ELSE LET c == careers[i]
             needed == min_per - Len(by_career[c])
             extra == Eligible(glob_norm, c, safe_only)
             sorted_extra == IF location # ""
                             THEN SortLocationFirst(extra, location) ELSE extra
             next == IF Len(by_career[c]) >= min_per THEN by_career
                     ELSE [by_career EXCEPT ![c] = @ \o Take(sorted_extra, needed)]
         IN  Phase2(next, glob_norm, careers, i + 1, location, min_per, safe_only)

need_more(by_career, careers, min_per) ==
    \E c \in SeqSet(careers) : Len(by_career[c]) < min_per

\* A bucket as a dict: its keys in insertion order and its lists.
Bucket(careers, lists) == [tag |-> "dict", keys |-> Distinct(careers), lists |-> lists]

\* The area table of area_collect (lines 493-502) and its fallback [area].
area_to_careers(area) ==
    CASE area = "ambiental" -> <<"ambiental", "agricultura">>
      [] area = "ti" -> <<"ti", "sistemas", "ingeniería">>
      [] area = "sistemas" -> <<"sistemas", "ti", "ingeniería">>
      [] OTHER -> <<area>>

\* Lines 512-514: the lists of the bucket, one after the other.
RECURSIVE Flatten(_, _)
Flatten(bucket, i) ==
    IF i > Len(bucket.keys) THEN <<>>
    ELSE bucket.lists[bucket.keys[i]] \o Flatten(bucket, i + 1)

\* Lines 516-523: the first record of each link, in order.
RECURSIVE DedupeByLink(_, _)

\* The loop without its `link in seen_links` test.
DedupeByLink_KeepAll(collected, seen_links) == collected


DedupeByLink(collected, seen_links) ==
    IF collected = <<>> THEN <<>>
    ELSE LET item == Head(collected)
         IN  IF item.link \in seen_links
             THEN DedupeByLink(Tail(collected), seen_links)
             ELSE <<item>> \o DedupeByLink(Tail(collected), seen_links \cup {item.link})

\* Lines 511-525 for one area.
AreaList(bucket, min_per) == Take(DedupeByLink(Flatten(bucket, 1), {}), min_per)

----------------------------------------------------------------------------
(* The facade on an explicit cache state c = [mem, redis], for handlers    *)
(* that make several cache calls in a row.                                 *)

Cache == [mem |-> store, redis |-> rstore]

FGet(c, key) ==
    IF backend = "mem"
    THEN InMemorySWR_get_swr(c.mem, now, key)
    ELSE RedisSWR_get_swr(c.redis, now, key)

FSet(c, key, value, ttl_seconds, swr_seconds) ==
    IF backend = "mem"
    THEN [c EXCEPT !.mem = InMemorySWR_set_swr(@, now, key, value,
                                               ttl_seconds, swr_seconds)]
    ELSE [c EXCEPT !.redis = RedisSWR_set_swr(@, now, key, value,
                                              ttl_seconds, swr_seconds)]

FArchive(c, list_key, item) ==
    [mem |-> Facade_archive_store(c.mem, list_key, item),
     redis |-> Facade_archive_rstore(c.redis, list_key, item)]

\* The test when a cached value is never used.
FreshHit_Never(g) == FALSE

\* A value inside its stale window served as a hit.
FreshHit_Servable(g) == g[3] /\ g[1] # None

\* `if fresh and cached is not None`
FreshHit(g) == g[2] /\ g[1] # None

----------------------------------------------------------------------------
(* VolunteerSearch.search and collect_mexico as functions of the cache     *)
(* state and of what the adapters hand back (fan, used on a miss).         *)

\* A filters dict: its (key, value) pairs in insertion order.
EmptyFilters == <<>>
FilterArgs ==
    {EmptyFilters,
     <<<<"location", "cdmx">>>>,
     <<<<"location", "CDMX">>>>,
     <<<<"location", "cdmx">>, <<"field", "salud">>>>,
     <<<<"field", "salud">>, <<"location", "cdmx">>>>}

\* The position of a filter name under Python's string order.
KeyRank(k) == CASE k = "field" -> 1 [] k = "location" -> 2

\* json.dumps(filters, sort_keys=True): the pairs in the order of their keys.
RECURSIVE dumps_sort_keys(_)
dumps_sort_keys(d) ==
    IF d = <<>> THEN <<>>
    ELSE LET x == d[1]
             rest == dumps_sort_keys(Tail(d))
             Before(y) == KeyRank(y[1]) < KeyRank(x[1])
             NotBefore(y) == ~(KeyRank(y[1]) < KeyRank(x[1]))
         IN  SelectSeq(rest, Before) \o <<x>> \o SelectSeq(rest, NotBefore)

\* The key built from the pairs as they come.
SearchKeyOf_Unsorted(filters) == [ns |-> "vol.search", filters |-> filters]

\* Line 63.
SearchKeyOf(filters) == [ns |-> "vol.search", filters |-> dumps_sort_keys(filters)]

SearchKey == SearchKeyOf(EmptyFilters)
\* str.lower on the strings of the model.
lower(s) == IF s = "CDMX" THEN "cdmx" ELSE s

\* filters.get(k, "")
FilterGet(filters, k) ==
    IF \E i \in 1..Len(filters) : filters[i][1] = k
    THEN filters[CHOOSE i \in 1..Len(filters) : filters[i][1] = k][2]
    ELSE ""

\* {"location": location} if location else {}
LocationFilters(location) ==
    IF location # "" THEN <<<<"location", location>>>> ELSE EmptyFilters

\* Line 423.
MxKeyOf(filters) == [ns |-> "vol.mx", filters |-> dumps_sort_keys(filters)]
MxKey(location) == MxKeyOf(LocationFilters(location))
\* The key built from the list as passed.
CareerKey_Unsorted(careers, location, min_per, safe_only) ==
    [ns |-> "vol.career", careers |-> careers, location |-> location,
     min_per |-> min_per, safe_only |-> safe_only]

CareerKey(careers, location, min_per, safe_only) ==
    [ns |-> "vol.career", careers |-> Sorted(careers), location |-> location,
     min_per |-> min_per, safe_only |-> safe_only]

\* The adapters: what each may return when it does not fail.
Sources == {1, 2}
AdapterOutputs(s) ==
    IF s = 1 THEN {<<"e", "c", "a">>} ELSE {<<"b", "a">>, <<"d", "b">>}

\* What one adapter does when awaited: it returns a list or it raises.
Failed == [ok |-> FALSE]
Ok(items) == [ok |-> TRUE, items |-> items]
AdapterResults(s) == {Ok(items) : items \in AdapterOutputs(s)} \cup {Failed}

\* asyncio.as_completed: the adapters in the order they complete.
Orders ==
    {o \in [1..Cardinality(Sources) -> Sources] :
        \A i, j \in DOMAIN o : i # j => o[i] # o[j]}

\* One fan-out: every adapter of self.sources is started (line 68), each
\* ends in its own way, and they complete in some order.
Fans == [outs : {f \in [Sources -> UNION {AdapterResults(s) : s \in Sources}] :
                    \A s \in Sources : f[s] \in AdapterResults(s)},
         order : Orders]

\* The loop of lines 69-74 when one failure abandons the whole fan-out.
FanResult_AbortOnFailure(fan, i) ==
    IF i > 1 THEN <<>>
    ELSE IF \E s \in Sources : ~fan.outs[s].ok THEN <<>>
    ELSE fan.outs[fan.order[1]].items \o fan.outs[fan.order[2]].items

\* The loop of lines 69-74 when the adapters are awaited in the order of
\* self.sources.
FanResult_RegistrationOrder(fan, i) ==
    IF i > 1 THEN <<>>
    ELSE (IF fan.outs[1].ok THEN fan.outs[1].items ELSE <<>>)
         \o (IF fan.outs[2].ok THEN fan.outs[2].items ELSE <<>>)

\* Lines 69-74 from the i-th adapter to complete: results.extend(items),
\* or nothing when the adapter raised.
RECURSIVE FanResult(_, _)
FanResult(fan, i) ==
    IF i > Len(fan.order) THEN <<>>
    ELSE LET r == fan.outs[fan.order[i]]
         IN  (IF r.ok THEN r.items ELSE <<>>) \o FanResult(fan, i + 1)

\* Lines 67-74: the lists of the adapters that did not raise, in the order
\* the adapters complete.
FanOuts == {FanResult(fan, 1) : fan \in Fans}

\* search(filters): [out |-> the list returned, c |-> the cache afterwards].
search_filters(c, fan, filters) ==
    LET key == SearchKeyOf(filters)
        g == FGet(c, key)
    IN  IF FreshHit(g)
        THEN [out |-> g[1].items, c |-> c, hit |-> TRUE]
        ELSE [out |-> fan, hit |-> FALSE,
              c |-> FSet(c, key, ListVal(fan), TtlTicks, SwrTicks)]

\* search({})
search(c, fan) == search_filters(c, fan, EmptyFilters)

\* collect_mexico(filters).
collect_mexico_filters(c, fan, filters) ==
    LET s == search(c, fan)
        location == lower(FilterGet(filters, "location"))
        InLoc(r) == HasLocation(r, location)
        mx_norm == IF location # ""
                   THEN SelectSeq(normalize_mx(s.out), InLoc)
                   ELSE normalize_mx(s.out)
    IN  [out |-> mx_norm, hit |-> s.hit, raw |-> s.out,
         c |-> FSet(s.c, MxKeyOf(filters), ListVal(mx_norm), TtlTicks, SwrTicks)]

\* collect_mexico({"location": location} if location else {}).
collect_mexico(c, fan, location) == collect_mexico_filters(c, fan, LocationFilters(location))

\* Lines 485-487: the bucket is stored and its counts are archived.
ArchiveItem(f, lists) ==
    [careers |-> f.careers, location |-> f.location,
     count |-> [k \in DOMAIN lists |-> Len(lists[k])], ts |-> now]

\* The bucket stored and no summary archived.
save_and_archive_NoArchive(c, f, lists) ==
    FSet(c, CareerKey(f.careers, f.location, f.min_per, f.safe_only),
         Bucket(f.careers, lists), TtlTicks, SwrTicks)

save_and_archive(c, f, lists) ==
    FArchive(FSet(c, CareerKey(f.careers, f.location, f.min_per, f.safe_only),
                  Bucket(f.careers, lists), TtlTicks, SwrTicks),
             "vol.archive", ArchiveItem(f, lists))

----------------------------------------------------------------------------
(* career_collect and area_collect, step by step.  A step runs from one    *)
(* read of the clock to the next; a cache call raises when Redis is down.  *)

NoFrame == [set |-> FALSE]
NoCall == [op |-> "none"]

CareerArgs == {<<"salud">>, <<"salud", "ambiental">>, <<"salud", "salud">>}
AreaArgs == {<<"ambiental">>, <<"salud", "ambiental">>}

Requests == [location : Locations, min_per : 0..MaxMinPer, safe_only : BOOLEAN]

\* The defaults of career_collect's signature, min_per within the bound.
DefaultRequest == [location |-> "", min_per |-> MaxMinPer, safe_only |-> TRUE]

\* The callers that run search at the same time, and a caller at rest.
SearchCallers == 1..NumSearchers
IdleCaller == [pc |-> "idle"]

AggInitWith(requests) ==
    /\ request \in requests
    /\ apc = "idle"
    /\ acall = NoCall
    /\ cc = NoFrame
    /\ ac = NoFrame
    /\ aret = NoRet
    /\ ncalls = 0
    /\ lastcc = NoFrame
    /\ fanlog = NoFrame
    /\ prev = NoFrame
    /\ appended = <<>>
    /\ bq = [t \in Tasks |-> NoFrame]
    /\ norm = NoFrame
    /\ mem_results = <<>>
    /\ sc = [p \in SearchCallers |-> IdleCaller]

AggIdle == AggInitWith({DefaultRequest})

CacheRaises == backend = "redis" /\ ~redisUp

\* An exception leaves the whole call.
RaiseTop ==
    /\ apc' = "done"
    /\ aret' = Raised
    /\ UNCHANGED <<acall, cc, ac, ncalls, lastcc, store, rstore>>

\* career_collect hands its bucket back: to the caller, or to the loop of
\* area_collect, which flattens, dedupes and truncates it (lines 511-525).
CareerReturns(bucket) ==
    IF acall.op = "career_collect"
    THEN /\ apc' = "done"
         /\ aret' = Returned(bucket)
         /\ UNCHANGED ac
    ELSE LET area == ac.areas[ac.idx]
         IN  /\ ac' = [ac EXCEPT !.result[area] = AreaList(bucket, ac.min_per),
                                 !.flat[area] = Flatten(bucket, 1),
                                 !.idx = @ + 1]
             /\ apc' = "area_next"
             /\ UNCHANGED aret

Frame(careers, location, min_per, safe_only) ==
    [set |-> TRUE, careers |-> careers, location |-> location,
     min_per |-> min_per, safe_only |-> safe_only, mx |-> <<>>,
     phase1 |-> [c \in SeqSet(careers) |-> <<>>]]

StartCareer(careers, location, min_per, safe_only) ==
    /\ apc = "idle"
    /\ ncalls < MaxAggCalls
    /\ ncalls' = ncalls + 1
    /\ acall' = [op |-> "career_collect"]
    /\ cc' = Frame(careers, location, min_per, safe_only)
    /\ apc' = "career_start"
    /\ UNCHANGED <<ac, aret, lastcc, store, rstore>>
    /\ UNCHANGED <<now, backend, redisUp, lastSet, obs>>
    /\ UNCHANGED provVars
    /\ UNCHANGED <<request, fanlog, prev>>
    /\ UNCHANGED auxVars

StartArea(areas, location, min_per, safe_only) ==
    /\ apc = "idle"
    /\ ncalls < MaxAggCalls
    /\ ncalls' = ncalls + 1
    /\ acall' = [op |-> "area_collect"]
    /\ ac' = [set |-> TRUE, areas |-> areas, location |-> location,
              min_per |-> min_per, safe_only |-> safe_only, idx |-> 1,
              result |-> [a \in SeqSet(areas) |-> <<>>],
              flat |-> [a \in SeqSet(areas) |-> <<>>]]
    /\ apc' = "area_next"
    /\ UNCHANGED <<cc, aret, lastcc, store, rstore>>
    /\ UNCHANGED <<now, backend, redisUp, lastSet, obs>>
    /\ UNCHANGED provVars
    /\ UNCHANGED <<request, fanlog, prev>>
    /\ UNCHANGED auxVars

\* Lines 507-509 and 527: the next area, or the result.
AreaNext ==
    /\ apc = "area_next"
    /\ IF ac.idx > Len(ac.areas)
       THEN /\ apc' = "done"
            /\ aret' = Returned([tag |-> "areas", lists |-> ac.result])
            /\ UNCHANGED cc
       ELSE /\ cc' = Frame(area_to_careers(ac.areas[ac.idx]), ac.location,
                           ac.min_per, ac.safe_only)
            /\ apc' = "career_start"
            /\ UNCHANGED aret
    /\ UNCHANGED <<acall, ac, ncalls, lastcc, store, rstore>>
    /\ UNCHANGED <<now, backend, redisUp, lastSet, obs>>
    /\ UNCHANGED provVars
    /\ UNCHANGED <<request, fanlog, prev>>
    /\ UNCHANGED auxVars

\* Lines 428-431.
CareerStart ==
    /\ apc = "career_start"
    /\ IF CacheRaises THEN RaiseTop
       ELSE LET g == FGet(Cache, CareerKey(cc.careers, cc.location,
                                           cc.min_per, cc.safe_only))
            IN  IF FreshHit(g)
                THEN /\ CareerReturns(g[1])
                     /\ UNCHANGED <<acall, cc, ncalls, lastcc, store, rstore>>
                ELSE /\ apc' = "phase1"
                     /\ UNCHANGED <<acall, cc, ac, aret, ncalls, lastcc, store, rstore>>
    /\ UNCHANGED <<now, backend, redisUp, lastSet, obs>>
    /\ UNCHANGED provVars
    /\ UNCHANGED <<request, fanlog, prev>>
    /\ UNCHANGED auxVars

\* The bucket is complete: lines 485-488.
CareerFinish(c, mx, glob, ran2, phase1, lists) ==
    LET c2 == save_and_archive(c, cc, lists)
    IN  /\ store' = c2.mem
        /\ rstore' = c2.redis
        /\ lastcc' = [set |-> TRUE, careers |-> cc.careers, location |-> cc.location,
                      min_per |-> cc.min_per, safe_only |-> cc.safe_only,
                      mx |-> mx, glob |-> glob, ran2 |-> ran2,
                      phase1 |-> phase1, lists |-> lists]
        /\ CareerReturns(Bucket(cc.careers, lists))

\* Lines 433-447: the regional pool and phase 1.
CareerPhase1 ==
    /\ apc = "phase1"
    /\ IF CacheRaises THEN RaiseTop
       ELSE \E fan \in FanOuts :
            LET m == collect_mexico(Cache, fan, cc.location)
                by1 == Phase1(m.out, cc.careers, cc.min_per, cc.safe_only)
            IN  IF need_more(by1, cc.careers, cc.min_per)
                THEN /\ cc' = [cc EXCEPT !.mx = m.out, !.phase1 = by1]
                     /\ store' = m.c.mem
                     /\ rstore' = m.c.redis
                     /\ apc' = "phase2"
                     /\ UNCHANGED <<acall, ac, aret, ncalls, lastcc>>
                ELSE /\ CareerFinish(m.c, m.out, <<>>, FALSE, by1, by1)
                     /\ UNCHANGED <<acall, cc, ncalls>>
    /\ UNCHANGED <<now, backend, redisUp, lastSet, obs>>
    /\ UNCHANGED provVars
    /\ UNCHANGED <<request, fanlog, prev>>
    /\ UNCHANGED auxVars

\* Lines 448-488: the global pool and phase 2.
CareerPhase2 ==
    /\ apc = "phase2"
    /\ IF CacheRaises THEN RaiseTop
       ELSE \E fan \in FanOuts :
            LET s == search(Cache, fan)
                glob_norm == normalize_global(s.out)
                lists == Phase2(cc.phase1, glob_norm, cc.careers, 1,
                                cc.location, cc.min_per, cc.safe_only)
            IN  /\ CareerFinish(s.c, cc.mx, glob_norm, TRUE, cc.phase1, lists)
                /\ UNCHANGED <<acall, cc, ncalls>>
    /\ UNCHANGED <<now, backend, redisUp, lastSet, obs>>
    /\ UNCHANGED provVars
    /\ UNCHANGED <<request, fanlog, prev>>
    /\ UNCHANGED auxVars

\* The time until which the entry under key is fresh (its exp), 0 when
\* the backend in use holds no entry.
FreshUntil(c, key) ==
    IF backend = "mem"
    THEN (IF key \in DOMAIN c.mem THEN c.mem[key].exp ELSE 0)
    ELSE (IF key \in DOMAIN c.redis THEN json_loads(c.redis[key].raw).exp ELSE 0)

\* The time until which every bucket an area_collect over areas reads is
\* fresh.
RECURSIVE AreasFreshUntil(_, _, _)
AreasFreshUntil(c, areas, i) ==
    LET key == CareerKey(area_to_careers(areas[i]), request.location,
                         request.min_per, request.safe_only)
        here == FreshUntil(c, key)
    IN  IF i = Len(areas) THEN here
        ELSE LET rest == AreasFreshUntil(c, areas, i + 1)
             IN  IF here < rest THEN here ELSE rest

\* The caller takes the answer.
AggFinish ==
    /\ apc = "done"
    /\ apc' = "idle"
    /\ acall' = NoCall
    /\ cc' = NoFrame
    /\ ac' = NoFrame
    /\ aret' = NoRet
    /\ lastcc' = NoFrame
    /\ prev' = IF acall.op = "area_collect" /\ aret # Raised
               THEN [set |-> TRUE, areas |-> ac.areas, out |-> aret,
                     fresh_until |-> AreasFreshUntil(Cache, ac.areas, 1)]
               ELSE NoFrame
    /\ UNCHANGED <<ncalls, store, rstore>>
    /\ UNCHANGED <<now, backend, redisUp, lastSet, obs>>
    /\ UNCHANGED provVars
    /\ UNCHANGED <<request, fanlog>>
    /\ UNCHANGED auxVars

\* The filters of the last direct search call that stored its result.
Wrote(log) == IF "wrote" \in DOMAIN log THEN log.wrote ELSE NoFrame

\* volunteer_search.search(filters) called directly (main.py line 95).
StartSearchCall ==
    /\ apc = "idle"
    /\ ncalls < MaxAggCalls
    /\ ncalls' = ncalls + 1
    /\ \E filters \in FilterArgs : acall' = [op |-> "search", filters |-> filters]
    /\ apc' = "search"
    /\ fanlog' = [set |-> FALSE, wrote |-> Wrote(fanlog)]
    /\ UNCHANGED <<cc, ac, aret, lastcc, request, prev, store, rstore>>
    /\ UNCHANGED <<now, backend, redisUp, lastSet, obs>>
    /\ UNCHANGED provVars
    /\ UNCHANGED auxVars

\* Lines 61-77 for that call.
SearchRun ==
    /\ apc = "search"
    /\ IF CacheRaises
       THEN /\ RaiseTop
            /\ UNCHANGED fanlog
       ELSE \E fan \in Fans :
            LET s == search_filters(Cache, FanResult(fan, 1), acall.filters)
                before == FGet(Cache, SearchKeyOf(acall.filters))
            IN  /\ s.hit => fan = CHOOSE f \in Fans : TRUE
                /\ store' = s.c.mem
                /\ rstore' = s.c.redis
                /\ apc' = "done"
                /\ aret' = Returned(ListVal(s.out))
                /\ fanlog' = IF s.hit
                             THEN [set |-> TRUE, hit |-> TRUE, invoked |-> {},
                                   before |-> before, at |-> now,
                                   filters |-> acall.filters, wrote |-> Wrote(fanlog)]
                             ELSE [set |-> TRUE, hit |-> FALSE, invoked |-> DOMAIN fan.outs,
                                   outs |-> fan.outs, order |-> fan.order, out |-> s.out,
                                   before |-> before, at |-> now,
                                   filters |-> acall.filters,
                                   wrote |-> [set |-> TRUE, filters |-> acall.filters]]
                /\ UNCHANGED <<acall, cc, ac, ncalls, lastcc>>
    /\ UNCHANGED <<request, prev>>
    /\ UNCHANGED <<now, backend, redisUp, lastSet, obs>>
    /\ UNCHANGED provVars
    /\ UNCHANGED auxVars

\* Lines 69-77 once the adapters of a call have completed: the
\* concatenation is kept only if the key holds no fresh entry.
search_complete_KeepFresh(c, fan, filters) ==
    [out |-> fan,
     c |-> IF FreshHit(FGet(c, SearchKeyOf(filters))) THEN c
           ELSE FSet(c, SearchKeyOf(filters), ListVal(fan), TtlTicks, SwrTicks)]

\* Lines 69-77 once the adapters of a call have completed: set_swr of the
\* concatenation, whatever the key holds by then.
search_complete(c, fan, filters) ==
    [out |-> fan,
     c |-> FSet(c, SearchKeyOf(filters), ListVal(fan), TtlTicks, SwrTicks)]

\* The callers whose search is suspended on its adapters.
InFlight == {q \in SearchCallers : sc[q].pc = "fan"}

\* The callers whose search has run to its end.
Completed == {q \in SearchCallers : sc[q].pc = "done"}

\* The filters of concurrent callers: one dict written in two orders, and
\* another dict.
FlightFilters ==
    {EmptyFilters,
     <<<<"location", "cdmx">>, <<"field", "salud">>>>,
     <<<<"field", "salud">>, <<"location", "cdmx">>>>}

\* A caller starts search(filters): lines 61-68 run without suspension, up
\* to the first await on an adapter.
SearchBegin(p) ==
    /\ sc[p].pc = "idle"
    /\ \E filters \in FlightFilters :
          IF CacheRaises
          THEN sc' = [sc EXCEPT ![p] = [pc |-> "done", filters |-> filters, hit |-> FALSE,
                                         invoked |-> {}, ret |-> Raised]]
          ELSE LET g == FGet(Cache, SearchKeyOf(filters))
               IN  IF FreshHit(g)
                   THEN sc' = [sc EXCEPT ![p] = [pc |-> "done", filters |-> filters,
                                                  hit |-> TRUE, invoked |-> {},
                                                  ret |-> Returned(g[1])]]
                   ELSE sc' = [sc EXCEPT ![p] = [pc |-> "fan", filters |-> filters,
                                                  hit |-> FALSE, invoked |-> Sources,
                                                  with |-> InFlight]]
    /\ UNCHANGED <<appended, bq, norm, mem_results>>
    /\ UNCHANGED cacheVars
    /\ UNCHANGED provVars
    /\ UNCHANGED aggVars

\* The last adapter of the caller's fan-out completes: lines 69-77.
SearchComplete(p) ==
    /\ sc[p].pc = "fan"
    /\ \E fan \in Fans :
          IF CacheRaises
          THEN /\ sc' = [sc EXCEPT ![p] = [pc |-> "done", filters |-> sc[p].filters,
                                           hit |-> FALSE, invoked |-> sc[p].invoked,
                                           ret |-> Raised]]
               /\ UNCHANGED <<store, rstore>>
          ELSE LET s == search_complete(Cache, FanResult(fan, 1), sc[p].filters)
               IN  /\ store' = s.c.mem
                   /\ rstore' = s.c.redis
                   /\ sc' = [sc EXCEPT ![p] = [pc |-> "done", filters |-> sc[p].filters,
                                               hit |-> FALSE, invoked |-> sc[p].invoked,
                                               with |-> sc[p].with,
                                               outs |-> fan.outs, order |-> fan.order,
                                               out |-> s.out, at |-> now,
                                               seq |-> Cardinality(Completed) + 1,
                                               ret |-> Returned(ListVal(s.out))]]
    /\ UNCHANGED <<now, backend, redisUp, lastSet, obs>>
    /\ UNCHANGED <<appended, bq, norm, mem_results>>
    /\ UNCHANGED provVars
    /\ UNCHANGED aggVars

\* item["score"], in hundredths: no adapter sets "rank_score", "locations"
\* or "career" on a raw record, so rank's boosts stay at zero for them.
Score(r) ==
    CASE r = "a" -> 80 [] r = "b" -> 56 [] r = "c" -> 60 [] r = "d" -> 60
      [] r = "e" -> 66 [] r = "f" -> 62 [] r = "g" -> 70
      [] r = "h" -> 65

\* sorted(results, key=score, reverse=True): stable.
RECURSIVE sorted_by_score(_)
sorted_by_score(s) ==
    IF s = <<>> THEN <<>>
    ELSE LET x == s[1]
             rest == sorted_by_score(Tail(s))
             Higher(y) == Score(y) > Score(x)
             NotHigher(y) == ~(Score(y) > Score(x))
         IN  SelectSeq(rest, Higher) \o <<x>> \o SelectSeq(rest, NotHigher)

\* A list whose record dicts all carry the key "rank_score".
RankedVal(items) == [tag |-> "list", items |-> items, rank_score |-> TRUE]

\* VolunteerRanker.rank, lines 22-24: it["rank_score"] = ... is assigned on
\* the dicts of the list passed in.  What the list object v has become.
rank_in_place(v) == IF v.items = <<>> THEN v ELSE RankedVal(v.items)

\* The in-memory store after rank ran on the list search returned: the
\* list _InMemorySWR holds under key is that same object (set_swr keeps the
\* reference at line 28, get_swr hands it out at line 24).
rank_aliased(st, key) == [st EXCEPT ![key].value = rank_in_place(@)]

\* VolunteerStorage.store_results: extend and keep the last 1000 in
\* memory, LPUSH each and LTRIM 0 999 on Redis.
ResultsMax == 1000
Reverse(s) == [i \in 1..Len(s) |-> s[Len(s) - i + 1]]
store_results(kept, items) ==
    IF backend = "mem"
    THEN LastN(kept \o items, ResultsMax)
    ELSE FirstN(Reverse(items) \o kept, ResultsMax)

\* VolunteerMCPServer._prompt_search (main.py lines 89-98), with the
\* filters parse_prompt built.
StartPromptCall ==
    /\ apc = "idle"
    /\ ncalls < MaxAggCalls
    /\ ncalls' = ncalls + 1
    /\ \E filters \in FilterArgs : acall' = [op |-> "prompt_search", filters |-> filters]
    /\ apc' = "prompt"
    /\ fanlog' = NoFrame
    /\ UNCHANGED <<cc, ac, aret, lastcc, request, prev, store, rstore>>
    /\ UNCHANGED <<now, backend, redisUp, lastSet, obs>>
    /\ UNCHANGED provVars
    /\ UNCHANGED auxVars

\* search, rank and store_results of that call.
PromptSearchRun ==
    /\ apc = "prompt"
    /\ IF CacheRaises
       THEN /\ RaiseTop
            /\ UNCHANGED <<fanlog, mem_results>>
       ELSE \E fan \in FanOuts :
            LET key == SearchKeyOf(acall.filters)
                s == search_filters(Cache, fan, acall.filters)
                held == FGet(s.c, key)[1]
                ranked == sorted_by_score(s.out)
            IN  /\ store' = IF backend = "mem" THEN rank_aliased(s.c.mem, key) ELSE s.c.mem
                /\ rstore' = s.c.redis
                /\ mem_results' = store_results(mem_results, ranked)
                /\ apc' = "done"
                /\ aret' = Returned(rank_in_place(ListVal(ranked)))
                /\ fanlog' = [set |-> TRUE, hit |-> s.hit, filters |-> acall.filters,
                              out |-> s.out, held |-> held, at |-> now]
                /\ UNCHANGED <<acall, cc, ac, ncalls, lastcc>>
    /\ UNCHANGED <<request, prev>>
    /\ UNCHANGED <<now, backend, redisUp, lastSet, obs>>
    /\ UNCHANGED provVars
    /\ UNCHANGED <<appended, bq, norm, sc>>

\* volunteer_search.collect_mexico(filters) called directly (main.py lines
\* 133 and 152).
StartMxCall ==
    /\ apc = "idle"
    /\ ncalls < MaxAggCalls
    /\ ncalls' = ncalls + 1
    /\ \E filters \in FilterArgs : acall' = [op |-> "collect_mexico", filters |-> filters]
    /\ apc' = "mx"
    /\ fanlog' = NoFrame
    /\ UNCHANGED <<cc, ac, aret, lastcc, request, prev, store, rstore>>
    /\ UNCHANGED <<now, backend, redisUp, lastSet, obs>>
    /\ UNCHANGED provVars
    /\ UNCHANGED auxVars

\* Lines 414-425 for that call.
MxRun ==
    /\ apc = "mx"
    /\ IF CacheRaises
       THEN /\ RaiseTop
            /\ UNCHANGED fanlog
       ELSE \E fan \in FanOuts :
            LET m == collect_mexico_filters(Cache, fan, acall.filters)
            IN  /\ store' = m.c.mem
                /\ rstore' = m.c.redis
                /\ apc' = "done"
                /\ aret' = Returned(ListVal(m.out))
                /\ fanlog' = [set |-> TRUE, hit |-> m.hit, filters |-> acall.filters,
                              raw |-> m.raw, out |-> m.out, at |-> now]
                /\ UNCHANGED <<acall, cc, ac, ncalls, lastcc>>
    /\ UNCHANGED <<request, prev>>
    /\ UNCHANGED <<now, backend, redisUp, lastSet, obs>>
    /\ UNCHANGED provVars
    /\ UNCHANGED auxVars

StartCareerAny ==
    \E careers \in CareerArgs :
        StartCareer(careers, request.location, request.min_per, request.safe_only)

\* career_collect called with the same careers in either order.
CareerOrders == {<<"salud">>, <<"salud", "ambiental">>, <<"ambiental", "salud">>}
StartCareerOrdered ==
    \E careers \in CareerOrders :
        StartCareer(careers, request.location, request.min_per, request.safe_only)

StartAreaAny ==
    \E areas \in AreaArgs :
        StartArea(areas, request.location, request.min_per, request.safe_only)

\* The clock and the Redis server while the engine runs.
AggTick ==
    /\ now < MaxTime
    /\ now' = now + 1
    /\ UNCHANGED <<backend, store, rstore, redisUp, lastSet, obs>>
    /\ UNCHANGED provVars
    /\ UNCHANGED aggVars
    /\ UNCHANGED auxVars

AggRedisFlip ==
    /\ backend = "redis"
    /\ redisUp' = ~redisUp
    /\ UNCHANGED <<now, backend, store, rstore, lastSet, obs>>
    /\ UNCHANGED provVars
    /\ UNCHANGED aggVars
    /\ UNCHANGED auxVars

----------------------------------------------------------------------------
(* The two normalizations applied to a list of raw records on their own.   *)

\* The lists of at most n raw records.
RawLists(n) == UNION {[1..k -> RawRecords] : k \in 0..n}

\* _normalize_mx(items)
NormalizeMx ==
    /\ \E items \in RawLists(MaxNormLen) :
          norm' = [set |-> TRUE, path |-> "mx", items |-> items, out |-> normalize_mx(items)]
    /\ UNCHANGED <<appended, bq, mem_results, sc>>
    /\ UNCHANGED cacheVars
    /\ UNCHANGED provVars
    /\ UNCHANGED aggVars

\* Lines 450-471 on raw_global = items.
NormalizeGlobal ==
    /\ \E items \in RawLists(MaxNormLen) :
          norm' = [set |-> TRUE, path |-> "global", items |-> items,
                   out |-> normalize_global(items)]
    /\ UNCHANGED <<appended, bq, mem_results, sc>>
    /\ UNCHANGED cacheVars
    /\ UNCHANGED provVars
    /\ UNCHANGED aggVars

\* The career lists some of whose names the keyword table does not hold.
OffTableArgs ==
    {area_to_careers("ti"), area_to_careers("sistemas"), <<"salud", "sistemas">>}

\* Lines 433-483 on the raw list collect_mexico works from and the raw list
\* the second search({}) returns: the lists of the bucket.
CareerCompute ==
    /\ ~lastcc.set
    /\ \E raw_mx, raw_global \in RawLists(MaxNormLen), careers \in OffTableArgs :
          LET InLoc(r) == HasLocation(r, request.location)
              mx == IF request.location # ""
                    THEN SelectSeq(normalize_mx(raw_mx), InLoc)
                    ELSE normalize_mx(raw_mx)
              by1 == Phase1(mx, careers, request.min_per, request.safe_only)
              ran2 == need_more(by1, careers, request.min_per)
              glob == IF ran2 THEN normalize_global(raw_global) ELSE <<>>
              lists == IF ran2
                       THEN Phase2(by1, glob, careers, 1, request.location,
                                   request.min_per, request.safe_only)
                       ELSE by1
          IN  /\ ~ran2 => raw_global = <<>>
              /\ lastcc' = [set |-> TRUE, careers |-> careers,
                            location |-> request.location, min_per |-> request.min_per,
                            safe_only |-> request.safe_only, mx |-> mx, glob |-> glob,
                            ran2 |-> ran2, phase1 |-> by1, lists |-> lists]
    /\ UNCHANGED <<apc, acall, cc, ac, aret, ncalls, request, fanlog, prev>>
    /\ UNCHANGED cacheVars
    /\ UNCHANGED provVars
    /\ UNCHANGED auxVars

----------------------------------------------------------------------------
(* append_archive driven directly, and the two backends side by side.      *)

\* A Redis key with no TTL set on it.
NoExpiry == 1000000

\* The archive list as each backend stores it.
ArchiveOfMem(st, list_key) ==
    IF ArchiveKey(list_key) \in DOMAIN st
    THEN st[ArchiveKey(list_key)].value.items ELSE <<>>

ArchiveOfRedis(rst, t, list_key) ==
    IF RedisLive(rst, t, ArchiveKey(list_key))
    THEN [i \in 1..Len(rst[ArchiveKey(list_key)].raw) |->
             json_loads(rst[ArchiveKey(list_key)].raw[i])]
    ELSE <<>>

\* LPUSH, LTRIM and EXPIRE are three commands: the connection can be lost
\* before any of them.
ArchiveOutcomes ==
    IF redisUp THEN {"ok", "ltrim_raises", "expire_raises"} ELSE {"lpush_raises"}

\* Lines 75-79 up to the command that raises.
RedisSWR_append_outcome(rst, t, list_key, item, outcome) ==
    LET key == ArchiveKey(list_key)
        live == RedisLive(rst, t, key)
        old == IF live THEN rst[key].raw ELSE <<>>
        old_expire == IF live THEN rst[key].expire_at ELSE NoExpiry
        pushed == <<json_dumps(item)>> \o old
    IN  CASE outcome = "lpush_raises" -> rst
          [] outcome = "ltrim_raises" ->
                Put(rst, key, [kind |-> "list", raw |-> pushed, expire_at |-> old_expire])
          [] outcome = "expire_raises" ->
                Put(rst, key, [kind |-> "list", raw |-> FirstN(pushed, ArchiveMax),
                               expire_at |-> old_expire])
          [] OTHER -> RedisSWR_append_archive(rst, t, list_key, item)

\* redis_cache.append_archive("list", item): the items are numbered in the
\* order they are pushed.
ArchiveAppendUpTo(limit) ==
    /\ backend \in {"mem", "redis"}
    /\ Len(appended) < limit
    /\ LET item == [n |-> Len(appended) + 1]
       IN  IF backend = "mem"
           THEN /\ store' = InMemorySWR_append_archive(store, now, "list", item)
                /\ appended' = Append(appended, item)
                /\ obs' = [op |-> "append", raised |-> FALSE, up |-> redisUp]
                /\ UNCHANGED <<rstore, redisUp>>
           ELSE \E outcome \in ArchiveOutcomes :
                /\ rstore' = RedisSWR_append_outcome(rstore, now, "list", item, outcome)
                /\ redisUp' = IF outcome \in {"ltrim_raises", "expire_raises"}
                              THEN FALSE ELSE redisUp
                /\ appended' = IF outcome = "lpush_raises"
                               THEN appended ELSE Append(appended, item)
                /\ obs' = [op |-> "append", raised |-> outcome # "ok", up |-> redisUp]
                /\ UNCHANGED store
    /\ UNCHANGED <<now, backend, lastSet, bq, norm, mem_results, sc>>
    /\ UNCHANGED provVars
    /\ UNCHANGED aggVars

ArchiveAppend == ArchiveAppendUpTo(MaxAppends)

MemAppend == ArchiveAppendUpTo(MaxFewAppends)

\* One _InMemorySWR and one _RedisSWR (its server answering) given the same
\* calls at the same times.
EqSet(key, value, f, s) ==
    /\ store' = InMemorySWR_set_swr(store, now, key, value, f, s)
    /\ rstore' = IF RedisSetRaises(TRUE, f, s)
                 THEN rstore ELSE RedisSWR_set_swr(rstore, now, key, value, f, s)
    /\ obs' = [op |-> "set", key |-> key, mem_raised |-> FALSE,
               redis_raised |-> RedisSetRaises(TRUE, f, s)]
    /\ UNCHANGED <<now, backend, redisUp, lastSet>>
    /\ UNCHANGED provVars
    /\ UNCHANGED aggVars
    /\ UNCHANGED auxVars

EqGet(key) ==
    /\ obs' = [op |-> "get", key |-> key,
               mem |-> InMemorySWR_get_swr(store, now, key),
               redis |-> RedisSWR_get_swr(rstore, now, key)]
    /\ UNCHANGED <<now, backend, store, rstore, redisUp, lastSet>>
    /\ UNCHANGED provVars
    /\ UNCHANGED aggVars
    /\ UNCHANGED auxVars

EqAppend ==
    /\ Len(appended) < MaxFewAppends
    /\ LET item == [n |-> Len(appended) + 1]
       IN  /\ store' = InMemorySWR_append_archive(store, now, "list", item)
           /\ rstore' = RedisSWR_append_archive(rstore, now, "list", item)
           /\ appended' = Append(appended, item)
           /\ obs' = [op |-> "append", mem_raised |-> FALSE, redis_raised |-> FALSE]
    /\ UNCHANGED <<now, backend, redisUp, lastSet, bq, norm, mem_results, sc>>
    /\ UNCHANGED provVars
    /\ UNCHANGED aggVars

\* The key the two backends are compared on.
EqKey == [ns |-> "k1"]

EqSetAny == \E b \in Blobs, f \in 0..MaxTtl, s \in 0..MaxSwr :
                EqSet(EqKey, Blob(b), f, s)

EqGetAny == EqGet(EqKey)

----------------------------------------------------------------------------
(* Specifications *)

vars == <<cacheVars, provVars, aggVars, auxVars>>

NextCache == Tick \/ RedisFlip \/ CacheSetAny \/ CacheGetAny

InitCache == CacheInit /\ ProvIdle /\ AggIdle

SpecCache == InitCache /\ [][NextCache]_vars

NextRps ==
    \/ \E t \in Tasks : StartRps(t)
    \/ \E t \in Tasks : RpsEnter(t)
    \/ \E t \in Tasks : RpsLockAcquired(t)
    \/ \E t \in Tasks : RpsAfterSleep(t)
    \/ TickMono

InitRps ==
    /\ CacheInitWith({"mem"})
    /\ ProvInitWith(0..1, Configs({FALSE}, BOOLEAN, 1..MaxInterval, {1}, {FALSE}))
    /\ AggIdle

SpecRps == InitRps /\ [][NextRps]_vars /\ WF_vars(NextRps)

NextQuota ==
    \/ \E t \in Tasks : StartQuota(t)
    \/ \E t \in Tasks : QuotaStep(t)
    \/ \E t \in Tasks : Finish(t)
    \/ NewPeriod
    \/ QuotaRedisFlip

InitQuota ==
    /\ CacheInitWith({"mem"})
    /\ ProvInitWith({0}, Configs({FALSE}, {TRUE}, {1}, 0..MaxQuota, BOOLEAN))
    /\ AggIdle

SpecQuota == InitQuota /\ [][NextQuota]_vars

NextBoost ==
    \/ \E t \in Tasks : StartSearch(t)
    \/ \E t \in Tasks : RpsEnter(t)
    \/ \E t \in Tasks : RpsLockAcquired(t)
    \/ \E t \in Tasks : RpsAfterSleep(t)
    \/ \E t \in Tasks : QuotaStep(t)
    \/ \E t \in Tasks : BraveHttp(t)
    \/ \E t \in Tasks : DdgHttp(t)
    \/ \E t \in Tasks : Finish(t)
    \/ TickMono
    \/ SeedCache
    \/ Tick
    \/ QuotaRedisFlip

InitBoost ==
    /\ CacheInitWith({"mem"})
    /\ ProvInitWith({0}, Configs(BOOLEAN, BOOLEAN, {1}, {1}, BOOLEAN))
    /\ AggIdle

SpecBoost == InitBoost /\ [][NextBoost]_vars

\* search_boosted with a credential, the two gates in every setting.
NextGates ==
    \/ \E t \in Tasks : StartSearch(t)
    \/ \E t \in Tasks : RpsEnter(t)
    \/ \E t \in Tasks : RpsLockAcquired(t)
    \/ \E t \in Tasks : RpsAfterSleep(t)
    \/ \E t \in Tasks : QuotaStep(t)
    \/ \E t \in Tasks : BraveHttp(t)
    \/ \E t \in Tasks : Finish(t)
    \/ TickMono

InitGates ==
    /\ CacheInitWith({"mem"})
    /\ ProvInitWith({0}, Configs({TRUE}, BOOLEAN, 1..MaxInterval, 0..1, {FALSE}))
    /\ AggIdle

SpecGates == InitGates /\ [][NextGates]_vars

NextAgg ==
    \/ StartCareerAny
    \/ StartAreaAny
    \/ AreaNext
    \/ CareerStart
    \/ CareerPhase1
    \/ CareerPhase2
    \/ AggFinish
    \/ AggTick
    \/ AggRedisFlip

InitAgg ==
    /\ CacheInit
    /\ ProvIdle
    /\ AggInitWith(Requests)

SpecAgg == InitAgg /\ [][NextAgg]_vars

NextNorm ==
    \/ NormalizeMx
    \/ NormalizeGlobal

InitNorm ==
    /\ CacheInitWith({"mem"})
    /\ ProvIdle
    /\ AggIdle

SpecNorm == InitNorm /\ [][NextNorm]_vars

NextMx ==
    \/ StartMxCall
    \/ MxRun
    \/ AggFinish
    \/ AggTick
    \/ AggRedisFlip

InitMx ==
    /\ CacheInit
    /\ ProvIdle
    /\ AggIdle

SpecMx == InitMx /\ [][NextMx]_vars

\* set_swr on either key with a positive ttl and the longest stale window.
CacheSetWindowed == \E k \in Keys, b \in Blobs, f \in 1..MaxTtl :
                        CacheSet(k, Blob(b), f, MaxSwr)

NextFrame ==
    \/ CacheSetWindowed
    \/ CacheGetAny
    \/ MemAppend
    \/ Tick
    \/ RedisFlip

InitFrame ==
    /\ CacheInit
    /\ ProvIdle
    /\ AggIdle

SpecFrame == InitFrame /\ [][NextFrame]_vars

NextBucket == CareerCompute

InitBucket ==
    /\ CacheInitWith({"mem"})
    /\ ProvIdle
    /\ AggInitWith(Requests)

SpecBucket == InitBucket /\ [][NextBucket]_vars

NextFlight ==
    \/ \E p \in SearchCallers : SearchBegin(p)
    \/ \E p \in SearchCallers : SearchComplete(p)
    \/ AggTick
    \/ AggRedisFlip

InitFlight ==
    /\ CacheInit
    /\ ProvIdle
    /\ AggIdle

SpecFlight == InitFlight /\ [][NextFlight]_vars

NextRank ==
    \/ StartPromptCall
    \/ PromptSearchRun
    \/ AggFinish
    \/ AggTick
    \/ AggRedisFlip

InitRank ==
    /\ CacheInit
    /\ ProvIdle
    /\ AggIdle

SpecRank == InitRank /\ [][NextRank]_vars

NextSave ==
    \/ StartCareerOrdered
    \/ CareerStart
    \/ CareerPhase1
    \/ CareerPhase2
    \/ AggFinish
    \/ AggTick
    \/ AggRedisFlip

InitSave ==
    /\ CacheInit
    /\ ProvIdle
    /\ AggInitWith(Requests)

SpecSave == InitSave /\ [][NextSave]_vars

NextCareer ==
    \/ StartCareerAny
    \/ CareerStart
    \/ CareerPhase1
    \/ CareerPhase2
    \/ AggFinish
    \/ AggTick
    \/ AggRedisFlip

InitCareer ==
    /\ CacheInit
    /\ ProvIdle
    /\ AggInitWith(Requests)

SpecCareer == InitCareer /\ [][NextCareer]_vars

NextArchive ==
    \/ ArchiveAppend
    \/ Tick
    \/ RedisFlip

InitArchive ==
    /\ CacheInit
    /\ ProvIdle
    /\ AggIdle

SpecArchive == InitArchive /\ [][NextArchive]_vars

NextEquiv ==
    \/ EqSetAny
    \/ EqGetAny
    \/ EqAppend
    \/ Tick

InitEquiv ==
    /\ CacheInitWith({"both"})
    /\ ProvIdle
    /\ AggIdle

SpecEquiv == InitEquiv /\ [][NextEquiv]_vars

NextMem ==
    \/ CacheSetAny
    \/ CacheGetAny
    \/ MemAppend
    \/ Tick

InitMem ==
    /\ CacheInitWith({"mem"})
    /\ ProvIdle
    /\ AggIdle

SpecMem == InitMem /\ [][NextMem]_vars

NextBoosted ==
    \/ \E t \in Tasks : StartBoosted(t)
    \/ \E t \in Tasks : RpsEnter(t)
    \/ \E t \in Tasks : RpsLockAcquired(t)
    \/ \E t \in Tasks : RpsAfterSleep(t)
    \/ \E t \in Tasks : QuotaStep(t)
    \/ \E t \in Tasks : BraveHttp(t)
    \/ \E t \in Tasks : DdgHttp(t)
    \/ \E t \in Tasks : Finish(t)
    \/ TickMono

InitBoosted ==
    /\ CacheInitWith({"mem"})
    /\ ProvInitWith({0}, Configs(BOOLEAN, {TRUE}, {1}, {1}, {FALSE}))
    /\ AggIdle

SpecBoosted == InitBoosted /\ [][NextBoosted]_vars

NextSearch ==
    \/ StartSearchCall
    \/ SearchRun
    \/ AggFinish
    \/ AggTick
    \/ AggRedisFlip

InitSearch ==
    /\ CacheInit
    /\ ProvIdle
    /\ AggIdle

SpecSearch == InitSearch /\ [][NextSearch]_vars

----------------------------------------------------------------------------
\* C4: freshness monotonicity.  A get that returns reports, for the last
\* set(key, v, f, s) made age ticks earlier: (v, true, true) while age < f,
\* (v, false, true) while f <= age < f+s, and (None, false, false) from
\* age >= f+s on, as it does for a key that was never set.
C4_Expected(last, at) ==
    IF ~last.set THEN <<None, FALSE, FALSE>>
    ELSE LET age == at - last.at
         IN  IF age < last.f THEN <<last.value, TRUE, TRUE>>
             ELSE IF age < last.f + last.s THEN <<last.value, FALSE, TRUE>>
             ELSE <<None, FALSE, FALSE>>

C4_FreshnessMonotonicity ==
    (obs.op = "get" /\ ~obs.raised) => obs.res = C4_Expected(obs.last, obs.at)

C4_Witness ==
    /\ obs.op = "get" /\ ~obs.raised /\ obs.last.set
    /\ obs.at - obs.last.at >= obs.last.f + obs.last.s
    /\ obs.last.f > 0 /\ obs.last.s > 0

----------------------------------------------------------------------------
\* C5: quota fail-closed.  With monthly_quota = Q > 0, a quota-admission
\* request is granted exactly when it is among the first Q of its period,
\* whatever the Redis counter did on the way.
C5_QuotaFailClosed ==
    (qlog.set /\ cfg.monthly_quota > 0)
        => (qlog.granted <=> qlog.n <= cfg.monthly_quota)

\* The request after the quota is used up, answered while Redis was down.
C5_Witness ==
    /\ qlog.set /\ cfg.monthly_quota > 0 /\ cfg.has_redis
    /\ qlog.n = cfg.monthly_quota + 1
    /\ mcount[qlog.period] > 0

----------------------------------------------------------------------------
\* C6: admission serialization.  With max_rps > 0, at most one task is
\* between reading _last_request_ts and writing it, any two admission
\* timestamps are at least min_interval apart, n admissions span at least
\* (n-1) * min_interval, and every admission request completes.
InCritical == {t \in Tasks : pc[t] = "sleep"}

C6_Safe ==
    cfg.rps_on =>
        /\ Cardinality(InCritical) <= 1
        /\ \A i, j \in 1..Len(admits) :
               i < j => admits[j] - admits[i] >= cfg.min_interval
        /\ Len(admits) >= 1 =>
               admits[Len(admits)] - admits[1] >= (Len(admits) - 1) * cfg.min_interval

C6_AdmissionSerialization ==
    /\ []C6_Safe
    /\ \A t \in Tasks : (pc[t] = "rps") ~> (pc[t] = "done" /\ ret[t] = Returned(cfg.rps_on))

\* All N requests were admitted, the last one after queueing for the lock.
C6_Witness ==
    /\ cfg.rps_on
    /\ \A t \in Tasks : pc[t] = "done"
    /\ Len(admits) = NumTasks
    /\ admits[NumTasks] - admits[1] = (NumTasks - 1) * cfg.min_interval
    /\ cfg.min_interval > 1

----------------------------------------------------------------------------
\* A finished search_boosted call, and what it did on the way.
SearchDone(t) == op[t] = "search" /\ pc[t] = "done"

SentRequest(t) == http[t].brave # "none" \/ http[t].ddg # "none"

ServedFromCache(t) ==
    /\ ret[t].kind = "return"
    /\ "fromCache" \in DOMAIN ret[t].value
    /\ ret[t].value.fromCache
    /\ ret[t].value.results = seen[t][1].results

PrimaryFailed(t) ==
    \/ ~cfg.brave_api_key
    \/ ~cfg.rps_on
    \/ http[t].brave \notin {"ok_hits", "ok_empty"}

\* C7: a search_boosted call that finds a fresh entry under the key of
\* (boostedQuery, topK) returns the cached results with fromCache = true and
\* sends no request to the provider or to the scrape mirror.
C7_FreshHitServedFromCache ==
    \A t \in Tasks :
        (SearchDone(t) /\ seen[t][1] # None /\ seen[t][2])
            => (~SentRequest(t) /\ ServedFromCache(t))

\* C8: a search_boosted call that finds a stale but servable entry returns
\* the stale value with fromCache = true without waiting for a request.
C8_StaleServedWhileRevalidating ==
    \A t \in Tasks :
        (SearchDone(t) /\ seen[t][1] # None /\ ~seen[t][2] /\ seen[t][3])
            => (ServedFromCache(t) /\ ~SentRequest(t))

\* C9: when no key is configured or the primary attempt fails, the scrape
\* retrieval is attempted before the call returns.
C9_FallbackOnPrimaryFailure ==
    \A t \in Tasks :
        (SearchDone(t) /\ PrimaryFailed(t)) => http[t].ddg # "none"

\* C10: search_boosted never raises, and a failed retrieval yields an empty
\* results list.
C10_NeverRaises ==
    \A t \in Tasks :
        SearchDone(t) =>
            /\ ret[t].kind = "return"
            /\ (http[t].brave \notin {"none", "ok_hits"}) => ret[t].value.results = <<>>
            /\ (http[t].ddg \notin {"none", "ok_hits"}) => ret[t].value.results = <<>>

----------------------------------------------------------------------------
(* Claims about the aggregation engine *)

Links(items) == {items[i].link : i \in 1..Len(items)}

NoRepeatedLink(items) ==
    \A i, j \in 1..Len(items) : i # j => items[i].link # items[j].link

\* The links of the records eligible for category c in the two pools the
\* last career_collect used.
EligibleLinks(c) ==
    Links(Eligible(lastcc.mx, c, lastcc.safe_only))
        \cup Links(Eligible(lastcc.glob, c, lastcc.safe_only))

\* C1: for every requested category, when at least min_per distinct
\* eligible records exist across the regional and global pools the bucket
\* holds exactly min_per records, and otherwise it holds exactly the
\* eligible records, each once.
C1_QuotaFill ==
    lastcc.set =>
        \A c \in SeqSet(lastcc.careers) :
            LET n == Cardinality(EligibleLinks(c))
                got == lastcc.lists[c]
            IN  IF n >= lastcc.min_per
                THEN Len(got) = lastcc.min_per
                ELSE Len(got) = n /\ Links(got) = EligibleLinks(c)

\* C2: no bucket computed by career_collect holds the same link twice; a
\* record taken in phase 1 is not taken again by the global backfill.
C2_NoRepeatedLinkInBucket ==
    lastcc.set =>
        \A c \in SeqSet(lastcc.careers) : NoRepeatedLink(lastcc.lists[c])

\* The areas area_collect has already filled.
AreasDone == {ac.areas[i] : i \in 1..(ac.idx - 1)}

FirstIdx(items, link) ==
    CHOOSE i \in 1..Len(items) :
        /\ items[i].link = link
        /\ \A j \in 1..(i - 1) : items[j].link # link

Min(a, b) == IF a < b THEN a ELSE b

\* C3: the list area_collect builds for an area holds no link twice and at
\* most min_per records; it is made of the first record of each link of
\* the flattened bucket, in the order of the flattening, cut at min_per.
C3_AreaListDeduped ==
    ac.set =>
        \A a \in AreasDone :
            LET res == ac.result[a]
                flat == ac.flat[a]
            IN  /\ NoRepeatedLink(res)
                /\ Len(res) <= ac.min_per
                /\ Len(res) = Min(ac.min_per, Cardinality(Links(flat)))
                /\ Links(res) \subseteq Links(flat)
                /\ \A k \in 1..Len(res) : res[k] = flat[FirstIdx(flat, res[k].link)]
                /\ \A k, l \in 1..Len(res) :
                       k < l => FirstIdx(flat, res[k].link) < FirstIdx(flat, res[l].link)

\* area_collect has returned, and for one of its areas the flattened bucket
\* held a link twice and the list keeps two records.
C3_Witness ==
    /\ ac.set
    /\ apc = "done"
    /\ aret # Raised
    /\ \E a \in AreasDone :
           /\ ~NoRepeatedLink(ac.flat[a])
           /\ Len(ac.result[a]) >= 2

----------------------------------------------------------------------------
(* Claims about what the engine writes to the cache *)

\* What the backend in use holds under key.
Entry(c, key) ==
    LET st == IF backend = "mem" THEN c.mem ELSE c.redis
    IN  IF key \in DOMAIN st THEN st[key] ELSE NoEntry

\* get_swr would hand back a value inside its stale window.
Servable(c, key) == FGet(c, key)[3] /\ FGet(c, key)[1] # None

\* C11: a step that replaces a still-servable entry of the search key
\* writes a non-empty result list; a refresh that failed or found nothing
\* leaves the entry as it was.
C11_NoCachePoisoning ==
    [][(Servable(Cache, SearchKey) /\ Entry(Cache', SearchKey) # Entry(Cache, SearchKey))
          => FGet(Cache', SearchKey)[1].items # <<>>]_vars

----------------------------------------------------------------------------
(* Claims about the fan-out of search *)

RECURSIVE SumLen(_, _)
SumLen(outs, ss) ==
    IF ss = {} THEN 0
    ELSE LET s == CHOOSE x \in ss : TRUE
         IN  (IF outs[s].ok THEN Len(outs[s].items) ELSE 0) + SumLen(outs, ss \ {s})

\* items occurs in out as one block.
IsBlockOf(items, out) ==
    \E k \in 0..(Len(out) - Len(items)) : SubSeq(out, k + 1, k + Len(items)) = items

\* C12: on a cache miss every registered adapter is invoked; the list that
\* comes back holds the list of every adapter that succeeded as one block,
\* and nothing else, whatever the other adapters did.
C12_PartialFailureFanOut ==
    (apc = "done" /\ acall.op = "search" /\ fanlog.set /\ ~fanlog.hit) =>
        /\ fanlog.invoked = Sources
        /\ \A s \in Sources : fanlog.outs[s].ok => IsBlockOf(fanlog.outs[s].items, fanlog.out)
        /\ Len(fanlog.out) = SumLen(fanlog.outs, Sources)
        /\ aret = Returned(ListVal(fanlog.out))

\* search missed, one adapter raised, and the records of the other came back.
C12_Witness ==
    /\ apc = "done"
    /\ acall.op = "search"
    /\ fanlog.set
    /\ ~fanlog.hit
    /\ \E s \in Sources : ~fanlog.outs[s].ok
    /\ fanlog.out # <<>>
    /\ aret = Returned(ListVal(fanlog.out))

----------------------------------------------------------------------------
(* Claims about failures *)

\* C13: search, collect_mexico, career_collect and area_collect hand back
\* a result whatever the adapters and the cache backend do; no call of
\* theirs ends in an exception.
C13_AggregationNeverRaises == aret # Raised

\* C14: with the Redis server unreachable no facade call raises; get_swr
\* answers a miss, set_swr and append_archive change nothing.
C14_BackendFailureAbsorbed ==
    (obs.op # "none" /\ backend = "redis" /\ ~obs.up) =>
        /\ ~obs.raised
        /\ obs.op = "get" => obs.res = <<None, FALSE, FALSE>>

----------------------------------------------------------------------------
(* Claims about repeated calls *)

\* The running call is an area_collect with the areas of the one before,
\* and every bucket that one left is still fresh.
SecondAreaCall ==
    /\ prev.set
    /\ acall.op = "area_collect"
    /\ ac.areas = prev.areas
    /\ now < prev.fresh_until

C19_SameOutput ==
    (SecondAreaCall /\ apc = "done" /\ aret # Raised) => aret = prev.out

C19_NoAdapter ==
    (SecondAreaCall /\ apc = "career_start") => apc' \notin {"phase1", "phase2"}

\* C19: two consecutive area_collect calls with the same arguments, the
\* buckets of the first still fresh during the second, return the same
\* output, and the second call never gets to the source adapters.
C19_AreaIdempotent == []C19_SameOutput /\ [][C19_NoAdapter]_vars

\* The second of two such calls has returned a non-empty list.
C19_Witness ==
    /\ SecondAreaCall
    /\ apc = "done"
    /\ aret # Raised
    /\ \E a \in DOMAIN aret.value.lists : aret.value.lists[a] # <<>>

----------------------------------------------------------------------------
(* Claims about the quota counter *)

\* The counter _respect_monthly_quota counts a period with: the Redis key
\* when a Redis client is configured, _monthly_counts otherwise.
QuotaCounter(p) == IF cfg.has_redis THEN rcount[p] ELSE mcount[p]

\* C17: with monthly_quota = Q > 0, after the N quota-admission requests
\* of a period, in whatever order the callers ran, the period's counter
\* stands at N, and the request just answered was granted exactly when it
\* was among the first Q.
C17_QuotaCounterAtomic ==
    cfg.monthly_quota > 0 =>
        /\ \A p \in 0..MaxPeriod : QuotaCounter(p) = qreqs[p]
        /\ qlog.set => (qlog.granted <=> qlog.n <= cfg.monthly_quota)

----------------------------------------------------------------------------
(* Claims about the two backends and the archive *)

\* C15: given the same get_swr, set_swr and append_archive calls at the
\* same times, _InMemorySWR and _RedisSWR answer every get_swr with the
\* same triple and hold the same archive items in the same order.
C15_BackendEquivalence ==
    /\ obs.op = "get" => obs.mem = obs.redis
    /\ ArchiveOfMem(store, "list") = ArchiveOfRedis(rstore, now, "list")

\* C16: on the in-process cache, whatever the order in which callers' calls
\* run, get_swr returns the value and the two flags of one single set_swr,
\* the last one on the key, and the archive holds every item appended.
C16_NoTornReadNoLostItem ==
    /\ (obs.op = "get" /\ obs.last.set) =>
           obs.res = <<obs.last.value, obs.at < obs.last.at + obs.last.f,
                       obs.at < obs.last.at + obs.last.f + obs.last.s>>
    /\ (obs.op = "get" /\ ~obs.last.set) => obs.res = <<None, FALSE, FALSE>>
    /\ Len(ArchiveOfMem(store, "list")) = Len(appended)
    /\ SeqSet(ArchiveOfMem(store, "list")) = SeqSet(appended)

\* A get_swr answered from a set_swr made after the clock moved, with two
\* items appended to the archive.
C16_Witness ==
    /\ obs.op = "get"
    /\ obs.last.set
    /\ obs.last.at > 0
    /\ obs.res[1] = obs.last.value
    /\ Len(appended) >= 2

\* The archive of the backend in use.
ArchiveNow ==
    IF backend = "mem" THEN ArchiveOfMem(store, "list")
    ELSE ArchiveOfRedis(rstore, now, "list")

\* The last min(n, 200) items pushed, the latest first.
MostRecentFirst ==
    LET n == Len(appended)
        m == IF n < ArchiveMax THEN n ELSE ArchiveMax
    IN  [i \in 1..m |-> appended[n - i + 1]]

\* C20: the archive never holds more than 200 items, and after an
\* append_archive that returned it holds the most recently appended items,
\* the one just appended included, the latest first.
C20_ArchiveBoundAndOrder ==
    /\ Len(ArchiveNow) <= ArchiveMax
    /\ (obs.op = "append" /\ ~obs.raised) => ArchiveNow = MostRecentFirst

----------------------------------------------------------------------------
(* Claims about the boosted query *)

\* The hints of one list between parentheses with " OR " between them and
\* a space in front, or nothing for None and for the empty list.
Grouped(hints) ==
    IF hints = None THEN <<>>
    ELSE IF hints.strs = <<>> THEN <<>>
    ELSE <<" ", "(">>
         \o [i \in 1..(2 * Len(hints.strs) - 1) |->
                IF i % 2 = 1 THEN hints.strs[(i + 1) \div 2][1] ELSE " OR "]
         \o <<")">>

SameInputs(f, g) ==
    /\ f.query = g.query
    /\ f.domains = g.domains
    /\ f.keywords = g.keywords

\* C18: the boosted string of every search_boosted call is the raw query,
\* then the domain hints joined by " OR " in parentheses when there are any,
\* then the keyword hints likewise, with single spaces between the parts;
\* two calls with the same inputs have the same boosted string whatever the
\* state of the limiter and of the quota when they were made.
C18_BoostedDeterminism ==
    /\ \A t \in Tasks : bq[t].set =>
          bq[t].boosted = bq[t].query \o Grouped(bq[t].domains) \o Grouped(bq[t].keywords)
    /\ \A t, u \in Tasks : (bq[t].set /\ bq[u].set /\ SameInputs(bq[t], bq[u])) =>
          bq[t].boosted = bq[u].boosted

\* Two finished calls with the same inputs, two domain hints and a keyword
\* hint, that came back with different results.
C18_Witness ==
    /\ bq[1].set
    /\ bq[2].set
    /\ SameInputs(bq[1], bq[2])
    /\ bq[1].domains # None
    /\ bq[1].keywords # None
    /\ Len(bq[1].domains.strs) = 2
    /\ Len(bq[1].keywords.strs) >= 1
    /\ pc[1] = "done"
    /\ pc[2] = "done"
    /\ ret[1] # ret[2]

----------------------------------------------------------------------------
(* Claims about search *)

\* What get_swr would answer at time t.
GetAt(c, key, t) ==
    IF backend = "mem"
    THEN InMemorySWR_get_swr(c.mem, t, key)
    ELSE RedisSWR_get_swr(c.redis, t, key)

\* A direct call of search has returned.
SearchReturned ==
    /\ apc = "done"
    /\ acall.op = "search"
    /\ aret # Raised
    /\ fanlog.set

\* C21: a search that finds a fresh entry under the key of its filters
\* returns the cached list and starts no adapter; otherwise it stores what
\* the adapters returned under that key, fresh for 30 minutes (3 ticks) and
\* servable for 10 more (1 tick); two filter dicts with the same pairs in
\* another order have the same key.
C21_SearchCacheBacked ==
    /\ SearchReturned =>
          LET key == SearchKeyOf(fanlog.filters)
              g == fanlog.before
          IN  /\ (g[2] /\ g[1] # None) =>
                    /\ fanlog.hit
                    /\ fanlog.invoked = {}
                    /\ aret = Returned(g[1])
              /\ ~fanlog.hit =>
                    /\ aret = Returned(ListVal(fanlog.out))
                    /\ \A t \in fanlog.at..(fanlog.at + 5) :
                          /\ GetAt(Cache, key, t)[2] <=> t < fanlog.at + 3
                          /\ GetAt(Cache, key, t)[3] <=> t < fanlog.at + 4
                          /\ t < fanlog.at + 4 => GetAt(Cache, key, t)[1] = ListVal(fanlog.out)
    /\ \A f, g \in FilterArgs : SeqSet(f) = SeqSet(g) => SearchKeyOf(f) = SearchKeyOf(g)

\* A search answered from the entry that a search with the same filters in
\* another order had stored.
C21_Witness ==
    /\ SearchReturned
    /\ fanlog.hit
    /\ fanlog.wrote.set
    /\ fanlog.wrote.filters # fanlog.filters
    /\ SeqSet(fanlog.wrote.filters) = SeqSet(fanlog.filters)
    /\ aret.value.items # <<>>

----------------------------------------------------------------------------
(* Claims about the buckets of career_collect *)

\* C22: every list of a bucket of career_collect holds at most min_per
\* records, after phase 1 and after phase 2, for min_per from 0 up and for
\* career lists that name a career twice.
C22_BucketCapped ==
    /\ (apc = "phase2") =>
          \A c \in DOMAIN cc.phase1 : Len(cc.phase1[c]) <= cc.min_per
    /\ lastcc.set =>
          \A c \in DOMAIN lastcc.lists :
              /\ Len(lastcc.phase1[c]) <= lastcc.min_per
              /\ Len(lastcc.lists[c]) <= lastcc.min_per

\* Phase 2 ran for a career list that names a career twice, more records
\* were eligible than min_per, and the list stands at min_per.
C22_Witness ==
    /\ lastcc.set
    /\ lastcc.ran2
    /\ lastcc.min_per >= 1
    /\ \E i, j \in 1..Len(lastcc.careers) : i # j /\ lastcc.careers[i] = lastcc.careers[j]
    /\ \E c \in DOMAIN lastcc.lists :
          /\ Len(lastcc.lists[c]) = lastcc.min_per
          /\ Len(lastcc.phase1[c]) + Len(Eligible(lastcc.glob, c, lastcc.safe_only))
                 > lastcc.min_per

----------------------------------------------------------------------------
(* Claims about normalization *)

\* The keywords of the career table.
AllKeywords == UNION {mapping[i].kws : i \in 1..Len(mapping)}

\* C23: every record that _normalize_mx or the global normalization of
\* career_collect produces has a non-empty link and a non-empty career
\* list, and the career list is ["general"] exactly when no keyword of the
\* table occurs in the record's role and need.
C23_NormalizedRecordWellFormed ==
    norm.set =>
        \A i \in 1..Len(norm.out) :
            /\ norm.out[i].link # ""
            /\ norm.out[i].career # <<>>
            /\ norm.out[i].career = <<"general">> <=> norm.out[i].text \cap AllKeywords = {}

\* A list normalized on the global path with a record that has no link of
\* its own and one that matches no keyword.
C23_Witness ==
    /\ norm.set
    /\ norm.path = "global"
    /\ Len(norm.out) = 2
    /\ \E i \in 1..Len(norm.items) : RawLink(norm.items[i]) = ""
    /\ \E i \in 1..Len(norm.out) : norm.out[i].career = <<"general">>

----------------------------------------------------------------------------
(* Claims about the quota counter, step by step *)

\* A step in which a quota-admission request of the current period is
\* answered.
QuotaAnswered == qreqs'[period] = qreqs[period] + 1

\* C24: every step that answers a quota-admission request, granted or
\* denied, adds exactly one to the counter of the period, and no step
\* lowers the counter of a period.
C24_QuotaCounterCountsEveryRequest ==
    [][/\ QuotaAnswered => QuotaCounter(period)' = QuotaCounter(period) + 1
       /\ \A p \in 0..MaxPeriod : QuotaCounter(p)' >= QuotaCounter(p)]_vars

----------------------------------------------------------------------------
(* Claims about the gates in front of the primary provider *)

\* The GET to the primary provider is issued by task t in this step.
BraveRequestSent(t) == http[t].brave = "none" /\ http'[t].brave # "none"

\* The steps of a call, one after the other: the GET is sent only from the
\* point after the quota gate; that point is reached only by the step in
\* which the quota gate grants; the quota gate is reached only by the step
\* in which the interval gate admits; and the interval gate is entered only
\* with a credential.
C25_Steps ==
    \A t \in Tasks :
        /\ BraveRequestSent(t) => (pc[t] = "http_brave" /\ cfg.brave_api_key)
        /\ (pc'[t] = "http_brave" /\ pc[t] # "http_brave") =>
              /\ pc[t] = "quota"
              /\ qreqs'[period] = qreqs[period] + 1
              /\ qlog'.granted
        /\ (pc'[t] = "quota" /\ pc[t] # "quota") =>
              /\ pc[t] \in {"rps", "lock_wait", "sleep"}
              /\ cfg.rps_on
              /\ admits' = Append(admits, mono)
        /\ (pc'[t] = "rps" /\ pc[t] # "rps") => (pc[t] = "idle" /\ cfg.brave_api_key)
        /\ (pc[t] = "quota" /\ pc'[t] # "quota" /\ ~qlog'.granted) =>
              (pc'[t] = "done" /\ http'[t].brave = "none")
        /\ (pc[t] = "rps" /\ pc'[t] # "rps" /\ ~cfg.rps_on) =>
              (pc'[t] = "done" /\ http'[t].brave = "none")

\* C25: a call of search_boosted sends the GET to the primary provider
\* only with a credential configured and after the interval gate and then
\* the quota gate of that same call passed; a call one of whose gates
\* refused sends none.
C25_PrimaryOnlyAfterBothGates ==
    /\ [][C25_Steps]_vars
    /\ [](\A t \in Tasks : http[t].brave # "none" =>
              /\ cfg.brave_api_key
              /\ cfg.rps_on
              /\ cfg.monthly_quota > 0
              /\ admits # <<>>)

\* One call got hits from the primary provider, another was refused by the
\* quota gate and sent nothing.
C25_Witness ==
    /\ cfg.brave_api_key
    /\ \E t, u \in Tasks :
          /\ pc[t] = "done" /\ http[t].brave = "ok_hits"
          /\ pc[u] = "done" /\ http[u].brave = "none"
          /\ ret[u] = Returned(EmptyResult)

----------------------------------------------------------------------------
(* Claims about the two phases of career_collect *)

IsPrefix(p, s) == Len(p) <= Len(s) /\ SubSeq(s, 1, Len(p)) = p

\* The bucket the last career_collect computed, against its phase 1.
C26_Bucket ==
    lastcc.set =>
        /\ lastcc.ran2 => \E c \in DOMAIN lastcc.phase1 :
                              Len(lastcc.phase1[c]) < lastcc.min_per
        /\ ~lastcc.ran2 => lastcc.lists = lastcc.phase1
        /\ \A c \in DOMAIN lastcc.lists :
              /\ IsPrefix(lastcc.phase1[c], lastcc.lists[c])
              /\ Len(lastcc.phase1[c]) >= lastcc.min_per =>
                     lastcc.lists[c] = lastcc.phase1[c]
              /\ \A i \in 1..Len(lastcc.phase1[c]) :
                     \E j \in 1..Len(lastcc.mx) : lastcc.mx[j] = lastcc.phase1[c][i]

\* Phase 2 is entered only from phase 1 and only with a career short of
\* min_per, and one step (one search({})) ends it.
C26_Steps ==
    /\ (apc' = "phase2" /\ apc # "phase2") =>
          /\ apc = "phase1"
          /\ \E c \in DOMAIN cc'.phase1 : Len(cc'.phase1[c]) < cc'.min_per
    /\ (apc = "phase2" /\ apc' # "phase2") => (aret' = Raised \/ lastcc'.ran2)

\* C26: phase 2 of career_collect runs, with one more search({}), only
\* when some requested career has fewer than min_per records after phase 1;
\* it only appends: the phase-1 records of each list, all regional, stay as
\* its prefix, and a list at min_per after phase 1 is left as it is.
C26_PhaseStructure == []C26_Bucket /\ [][C26_Steps]_vars

\* Phase 2 ran: one list already at min_per stayed as it was, another that
\* had a record got more.
C26_Witness ==
    /\ lastcc.set
    /\ lastcc.ran2
    /\ \E c, d \in DOMAIN lastcc.lists :
          /\ Len(lastcc.phase1[c]) = lastcc.min_per
          /\ lastcc.lists[c] = lastcc.phase1[c]
          /\ Len(lastcc.phase1[d]) >= 1
          /\ Len(lastcc.lists[d]) > Len(lastcc.phase1[d])

----------------------------------------------------------------------------
(* Claims about the order of the global candidates *)

\* What phase 2 appended to the list of career c.
Appended2(c) ==
    SubSeq(lastcc.lists[c], Len(lastcc.phase1[c]) + 1, Len(lastcc.lists[c]))

\* The last career_collect ran phase 2 for careers each named once.
Phase2Ran ==
    /\ lastcc.set
    /\ lastcc.ran2
    /\ Distinct(lastcc.careers) = lastcc.careers

\* C27: what phase 2 appends for a career is the head of its global
\* candidates put in this order: those with the requested location in
\* their locations first, the others after, each group in discovery order;
\* the others are taken when the first group does not fill the list.
C27_Phase2CandidateOrder ==
    Phase2Ran =>
        \A c \in DOMAIN lastcc.lists :
            LET cand == Eligible(lastcc.glob, c, lastcc.safe_only)
                Has(i) == HasLocation(i, lastcc.location)
                NotHas(i) == ~HasLocation(i, lastcc.location)
                ext == Appended2(c)
                needed == lastcc.min_per - Len(lastcc.phase1[c])
            IN  /\ \A i, j \in 1..Len(ext) : (i < j /\ Has(ext[j])) => Has(ext[i])
                /\ IsPrefix(SelectSeq(ext, Has), SelectSeq(cand, Has))
                /\ IsPrefix(SelectSeq(ext, NotHas), SelectSeq(cand, NotHas))
                /\ SelectSeq(ext, NotHas) # <<>> => SelectSeq(ext, Has) = SelectSeq(cand, Has)
                /\ Len(ext) = (IF needed <= 0 THEN 0
                               ELSE IF Len(cand) < needed THEN Len(cand) ELSE needed)

\* Phase 2 ran with a location: a candidate without it was discovered
\* before one with it, and both were appended, the one with it first.
C27_Witness ==
    /\ Phase2Ran
    /\ lastcc.location # ""
    /\ \E c \in DOMAIN lastcc.lists :
          LET cand == Eligible(lastcc.glob, c, lastcc.safe_only)
              ext == Appended2(c)
          IN  /\ Len(cand) >= 2
              /\ ~HasLocation(cand[1], lastcc.location)
              /\ Len(ext) = 2
              /\ HasLocation(ext[1], lastcc.location)
              /\ ~HasLocation(ext[2], lastcc.location)

----------------------------------------------------------------------------
(* Claims about what a bucket may hold *)

\* The record's source or link contains a trusted origin.
Trusted(item) ==
    \/ \E o \in safe_sources : Contains(item.source, o)
    \/ \E o \in safe_sources : Contains(item.link, o)

EligibleFor(items, c, safe_only) ==
    \A i \in 1..Len(items) :
        /\ c \in SeqSet(items[i].career)
        /\ safe_only => Trusted(items[i])

\* C28: every record of the list of career c, after phase 1, after phase 2
\* and in the bucket career_collect returns, has c among its careers, and
\* with safe_only set its source or link contains a trusted origin.
C28_BucketEligibility ==
    /\ apc = "phase2" =>
          \A c \in DOMAIN cc.phase1 : EligibleFor(cc.phase1[c], c, cc.safe_only)
    /\ lastcc.set =>
          \A c \in DOMAIN lastcc.lists :
              /\ EligibleFor(lastcc.phase1[c], c, lastcc.safe_only)
              /\ EligibleFor(lastcc.lists[c], c, lastcc.safe_only)
    /\ (apc = "done" /\ acall.op = "career_collect" /\ aret # Raised) =>
          \A c \in DOMAIN aret.value.lists :
              EligibleFor(aret.value.lists[c], c, request.safe_only)

\* With safe_only set, phase 2 filled a list although the global pool held
\* a record of the career from an untrusted source.
C28_Witness ==
    /\ lastcc.set
    /\ lastcc.ran2
    /\ lastcc.safe_only
    /\ \E c \in DOMAIN lastcc.lists :
          /\ Len(lastcc.lists[c]) > Len(lastcc.phase1[c])
          /\ \E i \in 1..Len(lastcc.glob) :
                /\ c \in SeqSet(lastcc.glob[i].career)
                /\ ~Trusted(lastcc.glob[i])

----------------------------------------------------------------------------
(* Claims about collect_mexico *)

\* A direct call of collect_mexico has returned.
MxReturned ==
    /\ apc = "done"
    /\ acall.op = "collect_mexico"
    /\ aret # Raised
    /\ fanlog.set

\* C29: whatever its filters, collect_mexico reads the raw records of
\* search({}) and leaves nothing under the search key of its own filters;
\* every record it returns is the normalization of a raw record of the
\* region allow-list, in the raw order, and with a non-empty
\* filters.location has that location among its locations; the list
\* returned is the list stored under the vol.mx key of the filters, a key
\* that two filter dicts share only when they hold the same pairs.
C29_CollectMexico ==
    /\ MxReturned =>
          LET location == lower(FilterGet(fanlog.filters, "location"))
              IsMx(r) == is_mexico_item(r)
              region == SelectSeq(fanlog.raw, IsMx)
              Wanted(r) == location = "" \/ Location(r) = location
              kept == SelectSeq(region, Wanted)
          IN  /\ GetAt(Cache, SearchKey, fanlog.at)[1] = ListVal(fanlog.raw)
              /\ fanlog.filters # EmptyFilters =>
                     Entry(Cache, SearchKeyOf(fanlog.filters)) = NoEntry
              /\ Len(fanlog.out) = Len(kept)
              /\ \A i \in 1..Len(kept) :
                     /\ fanlog.out[i].link = Link(kept[i])
                     /\ fanlog.out[i].source = Source(kept[i])
                     /\ fanlog.out[i].locations = <<Location(kept[i])>>
              /\ aret = Returned(ListVal(fanlog.out))
              /\ GetAt(Cache, MxKeyOf(fanlog.filters), fanlog.at)
                     = <<ListVal(fanlog.out), TRUE, TRUE>>
    /\ \A f, g \in FilterArgs : MxKeyOf(f) = MxKeyOf(g) <=> SeqSet(f) = SeqSet(g)

\* collect_mexico called with a location in capitals: the raw list
\* held a record outside the region and a regional record of another
\* location, and the list returned is not empty.
C29_Witness ==
    /\ MxReturned
    /\ FilterGet(fanlog.filters, "location") = "CDMX"
    /\ \E i \in 1..Len(fanlog.raw) : ~is_mexico_item(fanlog.raw[i])
    /\ \E i \in 1..Len(fanlog.raw) :
          is_mexico_item(fanlog.raw[i]) /\ Location(fanlog.raw[i]) # "cdmx"
    /\ fanlog.out # <<>>

----------------------------------------------------------------------------
(* Claim about the fan-in order of search *)

\* A direct call of search has run its adapters and returned.
SearchFanned ==
    /\ SearchReturned
    /\ ~fanlog.hit

\* What the adapter that completed i-th handed to the loop.
Handed(i) ==
    LET r == fanlog.outs[fanlog.order[i]]
    IN  IF r.ok THEN r.items ELSE <<>>

\* The number of records handed over before the i-th completion.
RECURSIVE HandedBefore(_)
HandedBefore(i) == IF i <= 1 THEN 0 ELSE HandedBefore(i - 1) + Len(Handed(i - 1))

\* C30: in the list search returns after a fan-out, the records of the
\* adapter that completed i-th occupy the positions that follow the records
\* of all adapters that completed before it, in the order the adapter
\* returned them, and nothing else is in the list.
C30_FanInCompletionOrder ==
    SearchFanned =>
        /\ Len(fanlog.out) = HandedBefore(Len(fanlog.order) + 1)
        /\ \A i \in 1..Len(fanlog.order) :
               \A k \in 1..Len(Handed(i)) :
                   fanlog.out[HandedBefore(i) + k] = Handed(i)[k]

\* The second registered adapter completed first, both returned records,
\* and the list starts with the second adapter's records.
C30_Witness ==
    /\ SearchFanned
    /\ fanlog.order = <<2, 1>>
    /\ \A s \in Sources : fanlog.outs[s].ok
    /\ fanlog.out[1] = fanlog.outs[2].items[1]
    /\ fanlog.out[1] # fanlog.outs[1].items[1]
    /\ fanlog.out[Len(fanlog.outs[2].items) + 1] = fanlog.outs[1].items[1]

----------------------------------------------------------------------------
(* Claim about what career_collect persists *)

\* The list under archive:vol.archive as the backend in use holds it at t.
VolArchive(c, t) ==
    IF backend = "mem" THEN ArchiveOfMem(c.mem, "vol.archive")
    ELSE ArchiveOfRedis(c.redis, t, "vol.archive")

\* The number of times x occurs in s.
Count(s, x) == Cardinality({i \in DOMAIN s : s[i] = x})
SameBag(s, t) == Len(s) = Len(t) /\ \A x \in SeqSet(s) \cup SeqSet(t) : Count(s, x) = Count(t, x)

\* Two calls share their key exactly when they agree on location, min_per
\* and safe_only and name the same careers, in any order.
C31_Key ==
    \A c1, c2 \in CareerOrders \cup CareerArgs : \A r1, r2 \in Requests :
        CareerKey(c1, r1.location, r1.min_per, r1.safe_only)
            = CareerKey(c2, r2.location, r2.min_per, r2.safe_only)
        <=> (SameBag(c1, c2) /\ r1 = r2)

\* A step in which career_collect completes a bucket it computed.
C31_Steps ==
    (apc \in {"phase1", "phase2"} /\ apc' = "done" /\ aret' # Raised) =>
        LET key == CareerKey(cc.careers, cc.location, cc.min_per, cc.safe_only)
            bucket == aret'.value
            old == VolArchive(Cache, now)
            new == VolArchive(Cache', now)
            item == [careers |-> cc.careers, location |-> cc.location,
                     count |-> [k \in SeqSet(cc.careers) |-> Len(bucket.lists[k])],
                     ts |-> now]
        IN  /\ GetAt(Cache', key, now + TtlTicks - 1) = <<bucket, TRUE, TRUE>>
            /\ GetAt(Cache', key, now + TtlTicks)[2] = FALSE
            /\ GetAt(Cache', key, now + TtlTicks + SwrTicks - 1) = <<bucket, FALSE, TRUE>>
            /\ GetAt(Cache', key, now + TtlTicks + SwrTicks)[3] = FALSE
            /\ Len(new) = Len(old) + 1
            /\ new = Append(old, item) \/ new = <<item>> \o old

\* C31: a career_collect call that computes its bucket leaves that bucket
\* under the vol.career key of (sorted careers, location, min_per,
\* safe_only), fresh for 30 minutes (3 ticks) and servable for 10 more
\* (1 tick), and the list under archive:vol.archive one record longer: the
\* record with the careers, the location and the length of each career's
\* list.  The key does not depend on the order of the careers.
C31_SaveAndArchive == []C31_Key /\ [][C31_Steps]_vars

\* A call with the careers in the other order has computed a bucket with a
\* non-empty list, and its summary is the second record of the archive.
C31_Witness ==
    /\ apc = "done"
    /\ acall.op = "career_collect"
    /\ aret # Raised
    /\ lastcc.set
    /\ lastcc.careers = <<"ambiental", "salud">>
    /\ \E k \in SeqSet(lastcc.careers) : lastcc.lists[k] # <<>>
    /\ Len(VolArchive(Cache, now)) = 2
    /\ \E i \in 1..2 : VolArchive(Cache, now)[i].careers = <<"salud", "ambiental">>
    /\ FGet(Cache, CareerKey(<<"salud", "ambiental">>, lastcc.location,
                             lastcc.min_per, lastcc.safe_only))[1]
           = Bucket(lastcc.careers, lastcc.lists)

----------------------------------------------------------------------------
(* Claim about the windows of a cache entry *)

\* The entry the backend in use keeps under key: its value and the two
\* times stored with it (exp and swr_until, or the payload's exp and swr).
StoredEntry(key) ==
    IF backend = "mem"
    THEN (IF key \in DOMAIN store
          THEN [set |-> TRUE, value |-> store[key].value,
                freshAt |-> store[key].exp, staleAt |-> store[key].swr_until]
          ELSE NoEntry)
    ELSE (IF key \in DOMAIN rstore
          THEN [set |-> TRUE, value |-> json_loads(rstore[key].raw).value,
                freshAt |-> json_loads(rstore[key].raw).exp,
                staleAt |-> json_loads(rstore[key].raw).swr]
          ELSE NoEntry)

\* C32: the entry under a key is the one written by the last set_swr on
\* that key that returned: its value, freshAt = the time of the set +
\* ttl_seconds and staleAt = freshAt + swr_seconds, so staleAt >= freshAt
\* for every entry; a get_swr that returns reports fresh exactly when an
\* entry exists and now < freshAt, and servable exactly when an entry exists
\* and now < staleAt, so fresh implies servable.
C32_EntryWindows ==
    /\ \A k \in Keys :
          LET e == StoredEntry(k)
              last == IF k \in DOMAIN lastSet THEN lastSet[k] ELSE NoEntry
          IN  /\ e.set <=> last.set
              /\ e.set => /\ e.value = last.value
                          /\ e.freshAt = last.at + last.f
                          /\ e.staleAt = e.freshAt + last.s
                          /\ e.staleAt >= e.freshAt
    /\ (obs.op = "get" /\ ~obs.raised) =>
          /\ obs.res[2] <=> (obs.last.set /\ obs.at < obs.last.at + obs.last.f)
          /\ obs.res[3] <=> (obs.last.set /\ obs.at < obs.last.at + obs.last.f + obs.last.s)
          /\ obs.res[2] => obs.res[3]

\* A get found the entry of a set with both windows positive after its
\* fresh window and inside its stale window, and the entry is still the
\* one that set wrote.
C32_Witness ==
    /\ obs.op = "get" /\ ~obs.raised /\ obs.last.set
    /\ obs.last.f > 0 /\ obs.last.s > 0
    /\ obs.res = <<obs.last.value, FALSE, TRUE>>
    /\ StoredEntry(obs.key).set
    /\ StoredEntry(obs.key).freshAt = obs.last.at + obs.last.f
    /\ StoredEntry(obs.key).staleAt > StoredEntry(obs.key).freshAt

----------------------------------------------------------------------------
(* Claim about stored values and the components that receive them *)

\* C33: when _prompt_search has returned, the value held under the search
\* key of its filters is the value search stored there or found there (the
\* list search returned): ranking and storing the returned records has
\* changed no stored value.
C33_StoredValueImmutable ==
    (apc = "done" /\ acall.op = "prompt_search" /\ aret # Raised /\ fanlog.set) =>
        GetAt(Cache, SearchKeyOf(fanlog.filters), fanlog.at)[1] = fanlog.held

\* The same on the Redis backend, where the stored value is a serialized
\* copy.
C33_RedisStoredValueImmutable == backend = "redis" => C33_StoredValueImmutable

\* The call ranked and stored at least two records.
C33_Ranked ==
    /\ apc = "done" /\ acall.op = "prompt_search" /\ aret # Raised /\ fanlog.set
    /\ Len(fanlog.out) >= 2
    /\ mem_results # <<>>

----------------------------------------------------------------------------
(* Claim about search and an entry past its fresh window *)

\* C34: a search that returns the cached list found the entry fresh; a
\* search that finds the entry of its key past its fresh window and inside
\* its stale window starts every adapter before it returns, returns the
\* concatenation of what they handed over, and leaves that list under the
\* key as a fresh entry in place of the stale one.
C34_StaleNotServed ==
    SearchReturned =>
        /\ fanlog.hit => fanlog.before[2]
        /\ (~fanlog.before[2] /\ fanlog.before[3]) =>
              /\ ~fanlog.hit
              /\ fanlog.invoked = Sources
              /\ Len(fanlog.out) = HandedBefore(Len(fanlog.order) + 1)
              /\ \A i \in 1..Len(fanlog.order) : \A k \in 1..Len(Handed(i)) :
                     fanlog.out[HandedBefore(i) + k] = Handed(i)[k]
              /\ aret = Returned(ListVal(fanlog.out))
              /\ GetAt(Cache, SearchKeyOf(fanlog.filters), fanlog.at)
                     = <<ListVal(fanlog.out), TRUE, TRUE>>

\* search found a stale but servable list and returned a different one.
C34_Witness ==
    /\ SearchReturned
    /\ ~fanlog.before[2] /\ fanlog.before[3]
    /\ fanlog.before[1] # None
    /\ fanlog.before[1].items # <<>>
    /\ aret.value # fanlog.before[1]
    /\ aret.value.items # <<>>

----------------------------------------------------------------------------
(* Claim about the order of the two gates *)

\* Task t is refused by the quota gate in this step.
QuotaDenies(t) ==
    /\ pc[t] = "quota"
    /\ pc'[t] # "quota"
    /\ ~qlog'.granted

\* The two counters of the quota gate.
QuotaCounters == <<rcount, mcount, qreqs>>

C35_Steps ==
    \A t \in Tasks :
        \* the quota gate is reached only through an admission of the
        \* interval gate, which writes the timestamp
        /\ (pc'[t] = "quota" /\ pc[t] # "quota") =>
              /\ pc[t] \in {"rps", "lock_wait", "sleep"}
              /\ last_request_ts' = mono
              /\ admits' = Append(admits, mono)
        \* a refusal by the quota gate leaves the timestamp as it is
        /\ QuotaDenies(t) =>
              /\ last_request_ts' = last_request_ts
              /\ admits' = admits
              /\ pc'[t] = "done"
        \* whoever is admitted next has waited a full interval since the
        \* last admission
        /\ admits' # admits =>
              mono >= last_request_ts + cfg.min_interval
        \* a refusal by the interval gate ends the call with the quota
        \* counters untouched
        /\ (pc[t] = "rps" /\ pc'[t] # "rps" /\ ~cfg.rps_on) =>
              /\ pc'[t] = "done"
              /\ QuotaCounters' = QuotaCounters

\* C35: in _search_brave the interval gate answers before the quota gate is
\* asked: a call at the quota gate has written the last-admission
\* timestamp, a refusal by the quota gate does not take it back, and the
\* next admission comes a full interval after it; with max_rps <= 0 the
\* interval gate refuses and the quota counters stay at zero.
C35_GateOrder ==
    /\ [][C35_Steps]_vars
    /\ [](\A t \in Tasks : pc[t] = "quota" =>
              (admits # <<>> /\ last_request_ts = admits[Len(admits)]))
    /\ [](~cfg.rps_on => \A p \in 0..MaxPeriod :
              rcount[p] = 0 /\ mcount[p] = 0 /\ qreqs[p] = 0)

\* A call was admitted by the interval gate and refused by the quota gate,
\* and the next call was admitted a full interval later, not before.
C35_Witness ==
    /\ cfg.rps_on
    /\ cfg.monthly_quota = 0
    /\ cfg.min_interval > 1
    /\ Len(admits) = 2
    /\ admits[2] = admits[1] + cfg.min_interval
    /\ qreqs[period] = 2
    /\ \A t \in 1..NumCallers : pc[t] = "done" /\ http[t].brave = "none"

----------------------------------------------------------------------------
(* Claim about concurrent calls of search *)

\* Caller p ran its own fan-out to the end and returned.
Fanned(p) == sc[p].pc = "done" /\ ~sc[p].hit /\ sc[p].ret # Raised

\* What the adapter that completed i-th for caller p handed over, and the
\* number of records handed over before it.
HandedTo(p, i) ==
    LET r == sc[p].outs[sc[p].order[i]]
    IN  IF r.ok THEN r.items ELSE <<>>

RECURSIVE HandedToBefore(_, _)
HandedToBefore(p, i) ==
    IF i <= 1 THEN 0 ELSE HandedToBefore(p, i - 1) + Len(HandedTo(p, i - 1))

\* The callers that wrote the entry of filters (the same dict, whatever the
\* order of its pairs), and the last of them.
Writers(filters) ==
    {p \in SearchCallers : Fanned(p) /\ SearchKeyOf(sc[p].filters) = SearchKeyOf(filters)}
LastWriter(filters) ==
    CHOOSE p \in Writers(filters) : \A q \in Writers(filters) : sc[q].seq <= sc[p].seq

\* C36: every call of search that finds no fresh entry starts every
\* adapter itself, also when another call with the same filters is
\* already waiting for its adapters, and returns the concatenation of what
\* its own adapters handed over; the entry of the key is the list of the
\* call that completed last.
C36_NoSingleFlight ==
    /\ \A p \in SearchCallers : sc[p].pc = "fan" => sc[p].invoked = Sources
    /\ \A p \in SearchCallers : Fanned(p) =>
          /\ sc[p].invoked = Sources
          /\ Len(sc[p].out) = HandedToBefore(p, Len(sc[p].order) + 1)
          /\ \A i \in 1..Len(sc[p].order) : \A k \in 1..Len(HandedTo(p, i)) :
                 sc[p].out[HandedToBefore(p, i) + k] = HandedTo(p, i)[k]
          /\ sc[p].ret = Returned(ListVal(sc[p].out))
    /\ \A filters \in FlightFilters : Writers(filters) # {} =>
          LET p == LastWriter(filters)
          IN  GetAt(Cache, SearchKeyOf(filters), sc[p].at)
                  = <<ListVal(sc[p].out), TRUE, TRUE>>

\* Two calls with the same filters were waiting for their adapters at the
\* same time, returned different lists, and the entry holds the list of
\* the one that completed second.
C36_Witness ==
    \E p, q \in SearchCallers :
        /\ p # q
        /\ Fanned(p) /\ Fanned(q)
        /\ SearchKeyOf(sc[p].filters) = SearchKeyOf(sc[q].filters)
        /\ p \in sc[q].with
        /\ sc[p].seq < sc[q].seq
        /\ sc[p].out # sc[q].out
        /\ sc[p].out # <<>>
        /\ GetAt(Cache, SearchKeyOf(sc[q].filters), sc[q].at)[1] = ListVal(sc[q].out)

----------------------------------------------------------------------------
(* Claim about the categories the keyword table does not hold *)

\* The names _infer_career can put in a record's career list.
TableCareers == {mapping[i].career : i \in 1..Len(mapping)} \cup {"general"}

\* C37: in a bucket career_collect computes, the list of every requested
\* category that is neither one of the eight names of the keyword table nor
\* "general" is empty, after phase 1 and after phase 2, whatever the raw
\* lists hold.
C37_OffTableCategoryEmpty ==
    lastcc.set =>
        \A c \in SeqSet(lastcc.careers) :
            c \notin TableCareers =>
                (lastcc.phase1[c] = <<>> /\ lastcc.lists[c] = <<>>)

\* The careers of area "ti" were asked for; phase 2 ran over a global list
\* with a record whose text has the keyword "sistema"; that record is in
\* the list of "ti", and the lists of "sistemas" and "ingeniería" are empty.
C37_Witness ==
    /\ lastcc.set
    /\ lastcc.careers = area_to_careers("ti")
    /\ {"sistemas", "ingeniería"} \cap TableCareers = {}
    /\ lastcc.ran2
    /\ \E i \in 1..Len(lastcc.glob) : "sistema" \in lastcc.glob[i].text
    /\ lastcc.lists["ti"] # <<>>
    /\ lastcc.lists["sistemas"] = <<>>
    /\ lastcc.lists["ingeniería"] = <<>>

----------------------------------------------------------------------------
(* Claim about the frame of the cache operations *)

\* Every key some backend holds before or after the step.
FrameKeys ==
    Keys \cup {ArchiveKey("list")} \cup DOMAIN store \cup DOMAIN rstore
         \cup DOMAIN store' \cup DOMAIN rstore'

\* The keys whose entry (value and both times) the step changes.
Changed == {k \in FrameKeys : Entry(Cache', k) # Entry(Cache, k)}

\* C38: a step changes the entry of a key only if it is a set_swr on that
\* key or an append_archive on the list whose archive key it is, and then
\* it changes no other entry: get_swr changes none, and every other key
\* keeps its value and its two times.
C38_Frame ==
    [][/\ Changed # {} =>
             \/ (obs'.op = "set" /\ ~obs'.raised /\ Changed = {obs'.key})
             \/ (obs'.op = "append" /\ Changed = {ArchiveKey("list")})
       /\ (obs'.op = "get" /\ obs' # obs) => Changed = {}]_vars

\* After a set on one key, the entry of the other key is the one written
\* earlier and the archive still holds its two items.
C38_Witness ==
    /\ obs.op = "set" /\ ~obs.raised
    /\ \E k \in Keys \ {obs.key} :
          /\ Entry(Cache, k) # NoEntry
          /\ lastSet[k].at < lastSet[obs.key].at
          /\ GetAt(Cache, k, lastSet[k].at)[1] = lastSet[k].value
    /\ Entry(Cache, ArchiveKey("list")) # NoEntry
    /\ Len(appended) = MaxFewAppends

====
